---- MODULE Spec2Model ----
(***************************************************************************)
(* Model of the OpenSystem VTL immutability tools:                         *)
(*   - open_system_vtl_reset.py     (reclaim of retention-lock expired     *)
(*                                   tapes: SpecReset)                     *)
(*   - open_system_vtl_immutable.py (apply retention lock: SpecLock)       *)
(*   - utils.py                     (ssh / nsrmm / nsrjb wrappers)         *)
(* Strings are real strings; Python's str methods are modelled character   *)
(* by character with Len, SubSeq and \o.                                   *)
(***************************************************************************)
EXTENDS Integers, Sequences, FiniteSets, TLC

VARIABLES
    pc,                                   \* position of the reset workflow
    pool,                                 \* self.pool
    retention_locked_tape_list,           \* self.retention_locked_tape_list
    created_tapes,                        \* self.created_tapes
    idx,                                  \* loop position of "for rl_tape in ..."
    local_created_tapes,                  \* local created_tapes
    failed_tape_while_export,
    failed_tape_while_remove,
    failed_tape_while_create,
    failed_tape_while_import,
    failed_tape_while_delete_on_networker,
    log,                                  \* history: commands issued, with results
    lock_pc,                              \* position of the lock workflow
    config,                               \* the configuration document (lock workflow)
    VTL_STATUS,                           \* self.VTL_STATUS
    pool_retention_lock_enabled,          \* self.pool_retention_lock_enabled
    report,                               \* self.report
    tape_list,                            \* self.tape_list
    lock_idx,                             \* loop position of "for tape in self.tape_list"
    tape_list_result,                     \* tape_list_result of apply_retention_lock_to_tapes
    lock_log,                             \* history: commands issued, with results
    fn_pc,                                \* position of a single call under study
    fn_in,                                \* its argument
    fn_out                                \* what it returned or left behind

resetVars == <<pc, pool, retention_locked_tape_list, created_tapes, idx,
               local_created_tapes, failed_tape_while_export,
               failed_tape_while_remove, failed_tape_while_create,
               failed_tape_while_import,
               failed_tape_while_delete_on_networker, log>>

lockVars == <<lock_pc, config, VTL_STATUS, pool_retention_lock_enabled, report,
              tape_list, lock_idx, tape_list_result, lock_log>>

fnVars == <<fn_pc, fn_in, fn_out>>

vars == <<resetVars, lockVars, fnVars>>

(***************************************************************************)
(* Bounds                                                                  *)
(***************************************************************************)
\* longest pool listing (number of tape records) the appliance returns
MaxTapes == 3

(***************************************************************************)
(* Python str helpers                                                      *)
(***************************************************************************)
\* the element of a set of one element. Only({ e : v \in {x} }) is e with
\* v standing for the value of x
Only(S) == CHOOSE r \in S : TRUE

\* the helpers that call themselves are functions: f[x] is f at the value
\* of x

Char(s, i) == SubSeq(s, i, i)

\* s[i-1:i]: the character at position i, "" beyond the ends of s
At(s, i) == IF i \in 1..Len(s) THEN SubSeq(s, i, i) ELSE ""

\* s[a-1:b]: the characters at positions a..b that s has
Slice(s, a, b) ==
    IF a > Len(s) \/ b < a THEN ""
    ELSE SubSeq(s, a, IF b > Len(s) THEN Len(s) ELSE b)

Digits == {"0", "1", "2", "3", "4", "5", "6", "7", "8", "9"}

\* the characters str.isspace() holds for, among the characters of a string
\* of the model (ASCII): the blank, \t, \n, \r, \f, the vertical tab 0x0b
\* and the separators 0x1c .. 0x1f
Whitespace == {" ", "\t", "\n", "\r", "\f", "", "", "", "", ""}

\* the characters int() and float() skip around a literal: the blank,
\* \t, \n, \r, \f and the vertical tab 0x0b
LiteralSpace == {" ", "\t", "\n", "\r", "\f", ""}

\* Python s.startswith(p)
StartsWith(s, p) ==
    Only({ Len(t) >= Len(q) /\ SubSeq(t, 1, Len(q)) = q : t \in {s}, q \in {p} })

\* Python "p in s"
StrContains(s, p) ==
    Only({ (\E i \in 1..(Len(t) - Len(q) + 1) : SubSeq(t, i, i + Len(q) - 1) = q)
           : t \in {s}, q \in {p} })

LStrip[s \in STRING] ==
    IF Len(s) > 0 /\ Char(s, 1) \in Whitespace
    THEN LStrip[SubSeq(s, 2, Len(s))]
    ELSE s

RStrip[s \in STRING] ==
    IF Len(s) > 0 /\ Char(s, Len(s)) \in Whitespace
    THEN RStrip[SubSeq(s, 1, Len(s) - 1)]
    ELSE s

\* Python s.strip()
Strip(s) == LStrip[RStrip[s]]

\* the characters of s before its first blank
BeforeBlank[s \in STRING] ==
    IF Len(s) = 0 \/ Char(s, 1) = " "
    THEN ""
    ELSE Char(s, 1) \o BeforeBlank[SubSeq(s, 2, Len(s))]

\* Python s.split(" ")[0]
FirstField(s) == BeforeBlank[s]

\* the maximal run of digits that ends s
DigitsAtEnd[s \in STRING] ==
    IF Len(s) > 0 /\ Char(s, Len(s)) \in Digits
    THEN DigitsAtEnd[SubSeq(s, 1, Len(s) - 1)] \o Char(s, Len(s))
    ELSE ""

\* Python re.search(r'(\d+)$', s): group(1) is the maximal run of digits
\* that ends the string or stands before the newline that ends it ("$"
\* matches at both places); "" stands for "no match" (None)
TrailingDigits(s) ==
    Only({ IF Len(t) > 0 /\ Char(t, Len(t)) = "\n"
           THEN DigitsAtEnd[SubSeq(t, 1, Len(t) - 1)]
           ELSE DigitsAtEnd[t]
           : t \in {s} })

\* the whitespace separated tokens of cur \o s, cur being without
\* whitespace
Tokens[s \in STRING, cur \in STRING] ==
    IF Len(s) = 0
    THEN IF cur = "" THEN <<>> ELSE <<cur>>
    ELSE IF Char(s, 1) \in Whitespace
         THEN (IF cur = "" THEN <<>> ELSE <<cur>>)
                  \o Tokens[SubSeq(s, 2, Len(s)), ""]
         ELSE Tokens[SubSeq(s, 2, Len(s)), cur \o Char(s, 1)]

\* Python s.split(): the whitespace separated tokens of cur \o s
SplitWs(s, cur) == Tokens[s, cur]

\* the positions of s at which sep can be read
SepAt(s, sep) ==
    { i \in 1..(Len(s) - Len(sep) + 1) : SubSeq(s, i, i + Len(sep) - 1) = sep }

\* the least element of a set of numbers
Least(S) == Only({ (CHOOSE a \in T : \A b \in T : a <= b) : T \in {S} })

\* the fields of s from position from on, the separators (of width w)
\* being taken from left to right among the positions at that are not
\* before from
SplitFrom[s \in STRING, w \in Nat, at \in SUBSET Nat, from \in Nat] ==
    IF at = {}
    THEN <<SubSeq(s, from, Len(s))>>
    ELSE <<SubSeq(s, from, Least(at) - 1)>>
             \o SplitFrom[s, w, { a \in at : a >= Least(at) + w }, Least(at) + w]

\* Python s.split(sep), for a separator of one or more characters
Split(s, sep) ==
    Only({ SplitFrom[t, Len(q), SepAt(t, q), 1] : t \in {s}, q \in {sep} })

\* x.strip() is not empty
NonBlank(x) == Strip(x) # ""

\* [x.strip() for x in fields if x.strip()]
NonBlankStripped(fields) ==
    Only({ [i \in 1..Len(f) |-> Strip(f[i])]
           : f \in {SelectSeq(fields, NonBlank)} })

DigitVal(c) ==
    CASE c = "0" -> 0 [] c = "1" -> 1 [] c = "2" -> 2 [] c = "3" -> 3
      [] c = "4" -> 4 [] c = "5" -> 5 [] c = "6" -> 6 [] c = "7" -> 7
      [] c = "8" -> 8 [] c = "9" -> 9

DigitChar(d) ==
    CASE d = 0 -> "0" [] d = 1 -> "1" [] d = 2 -> "2" [] d = 3 -> "3"
      [] d = 4 -> "4" [] d = 5 -> "5" [] d = 6 -> "6" [] d = 7 -> "7"
      [] d = 8 -> "8" [] d = 9 -> "9"

AllDigits(s) ==
    Only({ Len(t) > 0 /\ (\A i \in 1..Len(t) : Char(t, i) \in Digits) : t \in {s} })

\* the text without the characters int() and float() skip around a literal
Trim[s \in STRING] ==
    IF Len(s) > 0 /\ Char(s, 1) \in LiteralSpace
    THEN Trim[SubSeq(s, 2, Len(s))]
    ELSE IF Len(s) > 0 /\ Char(s, Len(s)) \in LiteralSpace
         THEN Trim[SubSeq(s, 1, Len(s) - 1)]
         ELSE s

\* the digit part of a Python numeric literal: digits, with single
\* underscores allowed between two digits
DigitPart(s) ==
    Only({ (/\ Len(t) > 0
            /\ \A i \in 1..Len(t) : Char(t, i) \in Digits \union {"_"}
            /\ Char(t, 1) # "_" /\ Char(t, Len(t)) # "_"
            /\ \A i \in 1..(Len(t) - 1) : ~(Char(t, i) = "_" /\ Char(t, i + 1) = "_"))
           : t \in {s} })

\* a literal without its sign
Unsigned(s) ==
    Only({ IF At(t, 1) \in {"+", "-"} THEN SubSeq(t, 2, Len(t)) ELSE t : t \in {s} })

\* the most digits int() converts (sys.get_int_max_str_digits() of the
\* interpreter, never changed by the programs)
MaxStrDigits == 4300

\* the number of digits of a digit part, its underscores not counted
DigitCount(s) ==
    Only({ Cardinality({ i \in 1..Len(t) : Char(t, i) \in Digits }) : t \in {s} })

\* Python int(s) accepts, between skipped blanks, an optional sign followed
\* by a digit part of at most MaxStrDigits digits (anything else raises
\* ValueError)
IntLiteral(s) ==
    Only({ DigitPart(t) /\ DigitCount(t) <= MaxStrDigits
           : t \in {Unsigned(Trim[s])} })

DigitsToNat[s \in STRING] ==
    IF Len(s) = 0 THEN 0
    ELSE 10 * DigitsToNat[SubSeq(s, 1, Len(s) - 1)] + DigitVal(Char(s, Len(s)))

\* the digits of a digit part, without its underscores
DigitsOf[s \in STRING] ==
    IF Len(s) = 0 THEN ""
    ELSE (IF Char(s, 1) = "_" THEN "" ELSE Char(s, 1))
             \o DigitsOf[SubSeq(s, 2, Len(s))]

\* the position of the first character of s that is in set, 0 when none is
FirstIn(s, set) ==
    Only({ IF \E i \in 1..Len(t) : Char(t, i) \in c
           THEN CHOOSE i \in 1..Len(t) :
                    Char(t, i) \in c /\ \A j \in 1..(i - 1) : Char(t, j) \notin c
           ELSE 0
           : t \in {s}, c \in {set} })

\* digits without their leading zeros ("" for a zero)
Significant(s) ==
    Only({ IF p = 0 THEN "" ELSE SubSeq(t, p, Len(t))
           : t \in {s}, p \in {FirstIn(s, Digits \ {"0"})} })

\* Python str(int(s)), for s with IntLiteral(s): the decimal text of the
\* value, of any size
ParseInt(s) ==
    Only({ IF d = "" THEN "0"
           ELSE IF At(Trim[s], 1) = "-" THEN "-" \o d
           ELSE d
           : d \in {Significant(DigitsOf[Unsigned(Trim[s])])} })

\* the decimal text of a natural number
NatText[n \in Nat] ==
    IF n < 10 THEN DigitChar(n)
    ELSE NatText[n \div 10] \o DigitChar(n % 10)

\* Python str(n) / f"{n}" of an int that is not negative
NatToStr(n) == NatText[n]

\* Python str(n) / f"{n}" of an int
IntToStr(n) ==
    Only({ IF m < 0 THEN "-" \o NatText[0 - m] ELSE NatText[m] : m \in {n} })

\* Python s.upper() and s.lower() on ASCII letters
LowerCase == "abcdefghijklmnopqrstuvwxyz"

UpperCase == "ABCDEFGHIJKLMNOPQRSTUVWXYZ"

UpperChar(c) ==
    Only({ IF \E i \in 1..26 : Char(LowerCase, i) = d
           THEN Char(UpperCase, CHOOSE i \in 1..26 : Char(LowerCase, i) = d)
           ELSE d
           : d \in {c} })

LowerChar(c) ==
    Only({ IF \E i \in 1..26 : Char(UpperCase, i) = d
           THEN Char(LowerCase, CHOOSE i \in 1..26 : Char(UpperCase, i) = d)
           ELSE d
           : d \in {c} })

ToUpper[s \in STRING] ==
    IF Len(s) = 0 THEN ""
    ELSE UpperChar(Char(s, 1)) \o ToUpper[SubSeq(s, 2, Len(s))]

ToLower[s \in STRING] ==
    IF Len(s) = 0 THEN ""
    ELSE LowerChar(Char(s, 1)) \o ToLower[SubSeq(s, 2, Len(s))]

(***************************************************************************)
(* datetime.strptime and .timestamp()                                      *)
(***************************************************************************)
\* the maximal run of digits of s that starts at position p
DigitRun[s \in STRING, p \in Nat] ==
    IF At(s, p) \in Digits THEN At(s, p) \o DigitRun[s, p + 1] ELSE ""

\* the length of the maximal run of whitespace of s that starts at p (\s+)
SpaceRun[s \in STRING, p \in Nat] ==
    IF At(s, p) \in Whitespace THEN 1 + SpaceRun[s, p + 1] ELSE 0

\* a field of one or two digits in lo..hi: %m, %d, %H, %M and %S are read
\* with or without a leading zero
Field(run, lo, hi) ==
    Only({ Len(r) \in {1, 2} /\ DigitsToNat[r] \in lo..hi : r \in {run} })

\* %Y: exactly four digits at position p
YearAt(s, p) ==
    Only({ q + 3 <= Len(t) /\ AllDigits(SubSeq(t, q, q + 3)) : t \in {s}, q \in {p} })

\* the fields of a clock reading whose digit runs are H, M and S, the first
\* of them standing at position p of s
ClockOf(s, p, H, M, S) ==
    [ok |-> /\ Field(H, 0, 23) /\ At(s, p + Len(H)) = ":"
            /\ Field(M, 0, 59) /\ At(s, p + Len(H) + 1 + Len(M)) = ":"
            /\ Field(S, 0, 61),
     H |-> H, M |-> M, S |-> S,
     end |-> p + Len(H) + 1 + Len(M) + 1 + Len(S)]

\* %H:%M:%S read at position p: the three digit runs and the position
\* after them
ClockAt(s, p) ==
    Only({ Only({ Only({ Only({ ClockOf(t, q, H, M, S)
                                : S \in {DigitRun[t, q + Len(H) + 1 + Len(M) + 1]} })
                         : M \in {DigitRun[t, q + Len(H) + 1]} })
                  : H \in {DigitRun[t, q]} })
           : t \in {s}, q \in {p} })

LeapYear(y) == y % 4 = 0 /\ (y % 100 # 0 \/ y % 400 = 0)

DaysInMonth(y, m) ==
    IF m = 2 THEN (IF LeapYear(y) THEN 29 ELSE 28)
    ELSE IF m \in {4, 6, 9, 11} THEN 30 ELSE 31

\* what datetime(Y, m, d, H, M, S) accepts of the fields strptime has read
DateExists(Y, m, d, S) ==
    Only({ y >= 1 /\ dd <= DaysInMonth(y, mm) /\ S <= 59
           : y \in {Y}, mm \in {m}, dd \in {d} })

\* the fields of a '%Y/%m/%d %H:%M:%S' text whose month is the digit run mo,
\* whose day is the digit run d after lead blanks, and whose clock reading c
\* stands ws whitespace characters after the day
TimeOf(s, mo, lead, d, ws, c) ==
    [ok |-> /\ YearAt(s, 1) /\ At(s, 5) = "/"
            /\ Field(mo, 1, 12) /\ At(s, 6 + Len(mo)) = "/"
            /\ Field(d, 1, 31)
            /\ (lead = 1 => Len(d) = 1)
            /\ ws >= 1
            /\ c.ok /\ c.end = Len(s) + 1,
     Y |-> Slice(s, 1, 4), m |-> mo, d |-> d,
     H |-> c.H, M |-> c.M, S |-> c.S]

\* datetime.strptime(s, '%Y/%m/%d %H:%M:%S'): the text as the regular
\* expression of the format reads it. The day may be a blank and one digit,
\* and the blank of the format is one or more whitespace characters
TimeFields(s) ==
    Only({ Only({ Only({ Only({ Only({ TimeOf(t, mo, lead, d, ws, c)
                                       : c \in {ClockAt(t, 7 + Len(mo) + lead + Len(d) + ws)} })
                                : ws \in {SpaceRun[t, 7 + Len(mo) + lead + Len(d)]} })
                         : d \in {DigitRun[t, 7 + Len(mo) + lead]} })
                  : mo \in {DigitRun[t, 6]},
                    lead \in {IF At(t, 7 + Len(DigitRun[t, 6])) = " " THEN 1 ELSE 0} })
           : t \in {s} })

\* datetime.strptime(s, '%Y/%m/%d %H:%M:%S') returns (anything else raises
\* ValueError)
ValidTimeText(s) ==
    Only({ (/\ f.ok
            /\ DateExists(DigitsToNat[f.Y], DigitsToNat[f.m], DigitsToNat[f.d],
                          DigitsToNat[f.S]))
           : f \in {TimeFields(s)} })

\* days since 1970-01-01 of a calendar date
DaysFromCivil(y, m, d) ==
    LET yy  == IF m <= 2 THEN y - 1 ELSE y
        era == yy \div 400
        yoe == yy - era * 400
        mp  == IF m > 2 THEN m - 3 ELSE m + 9
        doy == (153 * mp + 2) \div 5 + d - 1
        doe == yoe * 365 + yoe \div 4 - yoe \div 100 + doy
    IN  era * 146097 + doe - 719468

\* the day number of the date whose fields are f
DayOfFields(f) ==
    Only({ DaysFromCivil(y, m, d)
           : y \in {DigitsToNat[f.Y]}, m \in {DigitsToNat[f.m]}, d \in {DigitsToNat[f.d]} })

\* the day number of the midnight of a '%Y/%m/%d %H:%M:%S' text
DayOf(s) == DayOfFields(TimeFields(s))

\* .timestamp() of a datetime of the first day of year 1 raises ValueError
\* (local time taken as UTC): the day before it has no year
TimestampRaises(s) == DayOf(s) = DaysFromCivil(1, 1, 1)

\* int(datetime.strptime(s, fmt).timestamp()), local time taken as UTC: the
\* day number and the second of the day (the seconds since 1970 do not fit
\* the integers of the model after 2038)
Timestamp(s) ==
    Only({ [day    |-> DayOfFields(f),
            second |-> DigitsToNat[f.H] * 3600 + DigitsToNat[f.M] * 60
                           + DigitsToNat[f.S]]
           : f \in {TimeFields(s)} })

\* a.timestamp() > b for a clock reading a with micro microseconds after
\* its second, and the whole-second timestamp b
TimestampGreater(a, micro, b) ==
    Only({ (\/ x.day > y.day
            \/ x.day = y.day /\ x.second > y.second
            \/ x.day = y.day /\ x.second = y.second /\ micro > 0)
           : x \in {a}, y \in {b} })

MonthNumber ==
    [jan |-> 1, feb |-> 2, mar |-> 3, apr |-> 4, may |-> 5, jun |-> 6,
     jul |-> 7, aug |-> 8, sep |-> 9, oct |-> 10, nov |-> 11, dec |-> 12]

\* the fields of a "%a %b %d %H:%M:%S %Y" text whose month name stands at
\* position pb, whose day is the digit run d, whose clock reading is c and
\* whose year stands at position pY; blanks tells whether each of the four
\* runs of whitespace has a character
PlacementOf(s, pb, d, c, pY, blanks) ==
    [ok |-> /\ ToLower[Slice(s, 1, 3)]
                   \in {"mon", "tue", "wed", "thu", "fri", "sat", "sun"}
            /\ ToLower[Slice(s, pb, pb + 2)] \in DOMAIN MonthNumber
            /\ Field(d, 1, 31)
            /\ c.ok
            /\ blanks
            /\ YearAt(s, pY) /\ pY + 3 = Len(s),
     Y |-> Slice(s, pY, pY + 3), b |-> ToLower[Slice(s, pb, pb + 2)],
     d |-> d, S |-> c.S]

\* datetime.strptime(s, "%a %b %d %H:%M:%S %Y"): names are read in any
\* case, and every blank of the format is one or more whitespace characters
PlacementFields(s) ==
    Only({ Only({ Only({ Only({ Only({ Only({ Only({
               PlacementOf(t, 4 + w1, d, c, c.end + w4,
                           w1 >= 1 /\ w2 >= 1 /\ w3 >= 1 /\ w4 >= 1)
               : w4 \in {SpaceRun[t, c.end]} })
               : c \in {ClockAt(t, 7 + w1 + w2 + Len(d) + w3)} })
               : w3 \in {SpaceRun[t, 7 + w1 + w2 + Len(d)]} })
               : d \in {DigitRun[t, 7 + w1 + w2]} })
               : w2 \in {SpaceRun[t, 7 + w1]} })
               : w1 \in {SpaceRun[t, 4]} })
           : t \in {s} })

\* datetime.strptime(s, "%a %b %d %H:%M:%S %Y") returns (the day of the
\* week is not compared with the date)
ValidPlacementTime(s) ==
    Only({ (/\ f.ok
            /\ DateExists(DigitsToNat[f.Y], MonthNumber[f.b], DigitsToNat[f.d],
                          DigitsToNat[f.S]))
           : f \in {PlacementFields(s)} })

\* the day number of the midnight of a "%a %b %d %H:%M:%S %Y" text
PlacementDayOf(s) ==
    Only({ DaysFromCivil(DigitsToNat[f.Y], MonthNumber[f.b], DigitsToNat[f.d])
           : f \in {PlacementFields(s)} })

(***************************************************************************)
(* Python float: the IEEE 754 double a literal is rounded to               *)
(***************************************************************************)
\* naturals of any size: their digits in base 10000, the least significant
\* first, without leading zeros (the integers of the model have 32 bits)
Base == 10000

Norm[n \in Seq(Nat)] ==
    IF Len(n) > 0 /\ n[Len(n)] = 0 THEN Norm[SubSeq(n, 1, Len(n) - 1)] ELSE n

\* n * c + a for c up to 2^17 and a up to 2^30, four digits at a time
MulAdd[n \in Seq(Nat), c \in Nat, a \in Nat] ==
    IF Len(n) < 4
    THEN LET v1 == (IF Len(n) >= 1 THEN n[1] * c ELSE 0) + a
             v2 == (IF Len(n) >= 2 THEN n[2] * c ELSE 0) + v1 \div Base
             v3 == (IF Len(n) >= 3 THEN n[3] * c ELSE 0) + v2 \div Base
         IN  Norm[<<v1 % Base, v2 % Base, v3 % Base,
                    (v3 \div Base) % Base, v3 \div (Base * Base)>>]
    ELSE LET v1 == n[1] * c + a
             v2 == n[2] * c + v1 \div Base
             v3 == n[3] * c + v2 \div Base
             v4 == n[4] * c + v3 \div Base
         IN  <<v1 % Base, v2 % Base, v3 % Base, v4 % Base>>
                 \o MulAdd[SubSeq(n, 5, Len(n)), c, v4 \div Base]

Mul(n, c) == MulAdd[n, c, 0]

\* n * 10^k
TimesTen(n, k) ==
    Only({ IF m = <<>> THEN <<>>
           ELSE Mul([i \in 1..(Len(m) + j \div 4) |->
                         IF i <= j \div 4 THEN 0 ELSE m[i - j \div 4]],
                    10 ^ (j % 4))
           : m \in {n}, j \in {k} })

\* the division of the digits 1..i of n by c, four digits at a time: r is
\* the remainder that the digits above them have left, and q the digits of
\* the quotient they have given
DivStep[n \in Seq(Nat), c \in Nat, i \in Nat, r \in Nat, q \in Seq(Nat)] ==
    IF i = 0 THEN [q |-> q, r |-> r]
    ELSE IF i < 4
         THEN LET v == r * Base + n[i]
              IN  DivStep[n, c, i - 1, v % c, <<v \div c>> \o q]
         ELSE LET v1 == r * Base + n[i]
                  v2 == (v1 % c) * Base + n[i - 1]
                  v3 == (v2 % c) * Base + n[i - 2]
                  v4 == (v3 % c) * Base + n[i - 3]
              IN  DivStep[n, c, i - 4, v4 % c,
                          <<v4 \div c, v3 \div c, v2 \div c, v1 \div c>> \o q]

\* n \div c for c up to 2^17, and whether the division left a remainder
Div(n, c) ==
    Only({ [q |-> Norm[d.q], sticky |-> d.r # 0]
           : d \in {DivStep[n, c, Len(n), 0, <<>>]} })

\* n \div 10^k, and whether the division left a remainder
OverTen(n, k) ==
    Only({ (LET low == IF j \div 4 > Len(m) THEN Len(m) ELSE j \div 4
            IN  Only({ [q |-> d.q,
                        sticky |-> d.sticky \/ \E i \in 1..low : m[i] # 0]
                       : d \in {Div(SubSeq(m, low + 1, Len(m)), 10 ^ (j % 4))} }))
           : m \in {n}, j \in {k} })

\* d.q \div c, and whether the division left a remainder or d.sticky is set
DivBy(d, c) ==
    Only({ Only({ [q |-> x.q, sticky |-> y.sticky \/ x.sticky]
                  : x \in {Div(y.q, c)} })
           : y \in {d} })

\* d.q \div 2^k, and whether the division left a remainder or d.sticky is
\* set
Halved[d \in [q : Seq(Nat), sticky : BOOLEAN], k \in Nat] ==
    IF d.q = <<>> \/ k = 0 THEN d
    ELSE IF k >= 51
         THEN Halved[DivBy(DivBy(DivBy(d, 2 ^ 17), 2 ^ 17), 2 ^ 17), k - 51]
         ELSE IF k >= 17
              THEN Halved[DivBy(d, 2 ^ 17), k - 17]
              ELSE DivBy(d, 2 ^ k)

\* n \div 2^k, and whether the division left a remainder
OverTwo(n, k) == Halved[[q |-> n, sticky |-> FALSE], k]

\* a < b
Less(a, b) ==
    Only({ (\/ Len(x) < Len(y)
            \/ /\ Len(x) = Len(y)
               /\ \E i \in 1..Len(x) :
                      x[i] < y[i] /\ \A j \in (i + 1)..Len(x) : x[j] = y[j])
           : x \in {a}, y \in {b} })

\* the natural number of a text of digits without leading zeros
Natural(digits) ==
    Only({ [i \in 1..((Len(d) + 3) \div 4) |->
               DigitsToNat[Slice(d,
                                 IF Len(d) - 4 * i + 1 < 1 THEN 1
                                 ELSE Len(d) - 4 * i + 1,
                                 Len(d) - 4 * (i - 1))]]
           : d \in {digits} })

TwoTo53 == <<992, 5474, 1992, 9007>>

TwoTo52 == <<496, 2737, 5996, 4503>>

\* n * 2^k for k up to 64
TimesTwo(n, k) ==
    Only({ Mul(Mul(Mul(Mul(n, 2 ^ (j % 16)), IF j >= 16 THEN 2 ^ 16 ELSE 1),
                   IF j >= 32 THEN 2 ^ 16 ELSE 1),
               IF j >= 48 THEN 2 ^ 16 ELSE 1)
           : j \in {k} })

\* the least j with n * 2^j >= t, and n * 2^j; j stops at 1075, the
\* exponent of the subnormal doubles
ScaleUp[n \in Seq(Nat), t \in Seq(Nat), j \in Nat] ==
    IF j + 51 <= 1075 /\ Less(TimesTwo(n, 51), t)
    THEN ScaleUp[TimesTwo(n, 51), t, j + 51]
    ELSE IF j + 17 <= 1075 /\ Less(Mul(n, 2 ^ 17), t)
         THEN ScaleUp[Mul(n, 2 ^ 17), t, j + 17]
         ELSE IF j + 4 <= 1075 /\ Less(Mul(n, 2 ^ 4), t)
              THEN ScaleUp[Mul(n, 2 ^ 4), t, j + 4]
              ELSE IF j < 1075 /\ Less(n, t)
                   THEN ScaleUp[Mul(n, 2), t, j + 1]
                   ELSE [n |-> n, j |-> j]

\* the least d with n < t * 2^d
ScaleDown[n \in Seq(Nat), t \in Seq(Nat), d \in Nat] ==
    IF Less(n, t) THEN d
    ELSE IF ~Less(n, TimesTwo(t, 51))
         THEN ScaleDown[n, TimesTwo(t, 51), d + 51]
         ELSE IF ~Less(n, Mul(t, 2 ^ 17))
              THEN ScaleDown[n, Mul(t, 2 ^ 17), d + 17]
              ELSE IF ~Less(n, Mul(t, 2 ^ 4))
                   THEN ScaleDown[n, Mul(t, 2 ^ 4), d + 4]
                   ELSE ScaleDown[n, Mul(t, 2), d + 1]

\* q * 2^e for the number whose bits are those of half.q followed by one
\* more bit (half.sticky) and by bits of which sticky tells whether one of
\* them is set: the nearest q, the even one of two that are as near
Rounded(half, sticky, e) ==
    Only({ IF r = TwoTo53 THEN [q |-> TwoTo52, e |-> e + 1]
           ELSE [q |-> r, e |-> e]
           : r \in {IF half.sticky
                       /\ (sticky \/ (half.q # <<>> /\ half.q[1] % 2 = 1))
                    THEN MulAdd[half.q, 1, 1]
                    ELSE half.q} })

\* the double nearest to scaled.q * 2^(e - 1) / 10^n10, scaled.q being a
\* number of 54 bits once it is divided by 10^n10
RoundScaled(scaled, n10, e) ==
    Only({ Only({ Only({ Rounded(half, Q.sticky \/ sc.sticky, e)
                         : half \in {Div(Q.q, 2)} })
                  : Q \in {OverTen(sc.q, n10)} })
           : sc \in {scaled} })

\* the double nearest to N / 10^n10, T being 2^53 * 10^n10
RoundRatio(N, T, n10) ==
    Only({ IF ~Less(a, u2)
           THEN Only({ RoundScaled(OverTwo(a, d), n10, 1 + d)
                       : d \in {ScaleDown[a, u2, 0]} })
           ELSE Only({ RoundScaled([q |-> up.n, sticky |-> FALSE], n10, 1 - up.j)
                       : up \in {ScaleUp[a, u, 0]} })
           : a \in {N}, u \in {T}, u2 \in {Mul(T, 2)} })

\* the double nearest to sig * 10^p (ties to the even one), as q * 2^e with
\* q < 2^53: the 54 leading bits of the value are computed exactly, the
\* last of them and the bits after it decide the rounding
RoundNearest(sig, p) ==
    Only({ RoundRatio(IF k > 0 THEN TimesTen(Natural(sig), k) ELSE Natural(sig),
                      TimesTen(TwoTo53, IF k < 0 THEN 0 - k ELSE 0),
                      IF k < 0 THEN 0 - k ELSE 0)
           : k \in {p} })

\* the parts of a literal u without its sign, pe being the position of its
\* exponent mark and pd the position of its point (0 when it has none)
PartsOf(neg, u, pe, pd) ==
    LET mant == IF pe = 0 THEN u ELSE SubSeq(u, 1, pe - 1)
    IN  [neg   |-> neg,
         name  |-> IF Len(u) <= 8 THEN ToLower[u] ELSE "",
         int   |-> IF pd = 0 THEN mant ELSE SubSeq(mant, 1, pd - 1),
         frac  |-> IF pd = 0 THEN "" ELSE SubSeq(mant, pd + 1, Len(mant)),
         dot   |-> pd # 0,
         exp   |-> pe # 0,
         expo  |-> IF pe = 0 THEN "" ELSE SubSeq(u, pe + 1, Len(u))]

\* the parts of a float literal: [sign] mantissa [(e|E) [sign] exponent],
\* the mantissa being int, int., int.frac or .frac
FloatParts(s) ==
    Only({ Only({ Only({ Only({ PartsOf(At(t, 1) = "-", u, pe, pd)
                                : pd \in {FirstIn(IF pe = 0 THEN u
                                                  ELSE SubSeq(u, 1, pe - 1), {"."})} })
                         : pe \in {FirstIn(u, {"e", "E"})} })
                  : u \in {Unsigned(t)} })
           : t \in {Trim[s]} })

\* Python float(s) accepts, between skipped blanks, an optional sign
\* followed by inf, infinity or nan in any case, or by a decimal literal
\* with an optional exponent (anything else raises ValueError)
FloatLiteral(s) ==
    Only({ (\/ f.name \in {"inf", "infinity", "nan"}
            \/ /\ \/ DigitPart(f.int) /\ (f.frac = "" \/ DigitPart(f.frac))
                  \/ f.int = "" /\ f.dot /\ DigitPart(f.frac)
               /\ f.exp => DigitPart(Unsigned(f.expo)))
           : f \in {FloatParts(s)} })

\* the exponent of a literal, kept within -10000..10000 (doubles end long
\* before)
ExponentOf(f) ==
    Only({ (LET v == IF Len(d) > 4 THEN 10000 ELSE DigitsToNat[d]
            IN  IF At(f.expo, 1) = "-" THEN 0 - v ELSE v)
           : d \in {Significant(DigitsOf[Unsigned(f.expo)])} })

\* the double of a literal that is no name: its sign, its significant
\* digits sig and its power of ten p
FloatOf(neg, sig, p) ==
    IF sig = "" \/ Len(sig) + p < 0 - 323
    THEN [cls |-> "zero", neg |-> neg]
    ELSE IF Len(sig) + p > 309 THEN [cls |-> "inf", neg |-> neg]
    ELSE Only({ IF r.q = <<>> THEN [cls |-> "zero", neg |-> neg]
                ELSE IF r.e >= 972 THEN [cls |-> "inf", neg |-> neg]
                ELSE [cls |-> "num", neg |-> neg, q |-> r.q, e |-> r.e]
                : r \in {RoundNearest(sig, p)} })

\* Python float(s), for s with FloatLiteral(s): nan, inf, zero, or the
\* double q * 2^e (num); a value of 10^309 or more is inf and one below
\* 10^-324 is zero, whatever its digits
float(s) ==
    Only({ IF f.name = "nan" THEN [cls |-> "nan", neg |-> f.neg]
           ELSE IF f.name \in {"inf", "infinity"}
                THEN [cls |-> "inf", neg |-> f.neg]
           ELSE Only({ Only({ FloatOf(f.neg, sig, p)
                              : sig \in {Significant(DigitsOf[f.int] \o frac)},
                                p \in {ExponentOf(f) - Len(frac)} })
                       : frac \in {DigitsOf[f.frac]} })
           : f \in {FloatParts(s)} })

\* x * 1024 ... * 1024 (k times): exact, or inf from 2^1024 on
Times1024(x, k) ==
    Only({ IF y.cls # "num" THEN y
           ELSE IF ~Less(y.q, TwoTo52) /\ y.e + 10 * j >= 972
                THEN [cls |-> "inf", neg |-> y.neg]
                ELSE [y EXCEPT !.e = y.e + 10 * j]
           : y \in {x}, j \in {k} })

\* |x| > |y| for two doubles that are neither nan nor zero
Larger(x, y) ==
    Only({ IF a.cls = "inf" \/ b.cls = "inf" THEN b.cls # "inf"
           ELSE IF a.e >= b.e
                THEN a.e - b.e > 64 \/ Less(b.q, TimesTwo(a.q, a.e - b.e))
                ELSE b.e - a.e <= 64 /\ Less(TimesTwo(b.q, b.e - a.e), a.q)
           : a \in {x}, b \in {y} })

\* -1, 0 or 1
SignOf(x) == IF x.cls = "zero" THEN 0 ELSE IF x.neg THEN 0 - 1 ELSE 1

\* x > y on doubles (False when one of them is nan)
FloatGreater(x, y) ==
    Only({ (/\ a.cls # "nan" /\ b.cls # "nan"
            /\ \/ SignOf(a) > SignOf(b)
               \/ SignOf(a) = 1 /\ SignOf(b) = 1 /\ Larger(a, b)
               \/ SignOf(a) = 0 - 1 /\ SignOf(b) = 0 - 1 /\ Larger(b, a))
           : a \in {x}, b \in {y} })

\* float(s) > 0
FloatPositive(s) ==
    Only({ x.cls \in {"num", "inf"} /\ ~x.neg : x \in {float(s)} })

\* utils.size_to_bytes: the power of 1024 of a unit, -1 for an unsupported one
UnitPower(unit) ==
    Only({ (CASE u = "B" -> 0
              [] u = "KB" -> 1
              [] u \in {"MB", "MIB"} -> 2
              [] u \in {"GB", "GIB"} -> 3
              [] u \in {"TB", "TIB"} -> 4
              [] OTHER -> 0 - 1)
           : u \in {ToUpper[unit]} })

\* utils.size_to_bytes raises ValueError
SizeRaises(size_str) ==
    Only({ (\/ Len(tokens) # 2
            \/ ~FloatLiteral(tokens[1])
            \/ UnitPower(tokens[2]) < 0)
           : tokens \in {SplitWs(Strip(size_str), "")} })

\* utils.size_to_bytes: float(size_value) * 1024 * ... * 1024
size_to_bytes(size_str) ==
    Only({ Times1024(float(tokens[1]), UnitPower(tokens[2]))
           : tokens \in {SplitWs(Strip(size_str), "")} })

\* a > b for two sizes of size_to_bytes
BytesGreater(a, b) == FloatGreater(a, b)

\* datetime.now() of the run, and the microseconds its clock may show
NowText == "2025/02/17 12:00:00"

NowMicros == {0, 500000}

(***************************************************************************)
(* Inputs of the reset workflow                                            *)
(***************************************************************************)
Tape(b, p, l, st, sz, rt) ==
    [barcode |-> b, pool_name |-> p, location |-> l, state |-> st,
     size |-> sz, retention_time |-> rt]

\* the rows the appliance may list for the pool, in listing order
Catalogue ==
    << Tape("A55157LA", "FEB_3", "Pool_TEST slot 667", "RO/RL*", "5 GiB",
            "2025/02/16 19:45:48"),
       Tape("A55004LA", "FEB_3", "vault", "RO/RL*", "5 GiB",
            "2025/02/17 00:00:00"),
       Tape("A55200LA", "FEB_3", "Pool_TEST slot 12", "RO/RL*", "2.5 GiB",
            "2025/02/16 19:45:48"),
       Tape("A55300LA", "FEB_3", "Pool_TEST slot 3", "RO/RL*", "10 GiB",
            "2025/02/16 19:45:48"),
       Tape("TEST01L5", "FEB_3", "vault 7", "RO/RL*", "5 GiB",
            "2025/02/16 19:45:48"),
       Tape("A55400LA", "FEB_3", "Pool_TEST slot 9", "RW", "5 GiB", "n/a"),
       Tape("A55500LA", "FEB_3", "Pool_TEST slot 10", "RO/RL", "5 GiB",
            "2026/01/01 00:00:00") >>

RECURSIVE PickRows(_, _)
PickRows(S, from) ==
    IF from > Len(Catalogue) THEN <<>>
    ELSE (IF from \in S THEN <<Catalogue[from]>> ELSE <<>>)
             \o PickRows(S, from + 1)

\* the pool listings: the sub-listings of the catalogue of at most MaxTapes rows
Listings ==
    { PickRows(S, 1) : S \in { T \in SUBSET (1..Len(Catalogue)) :
                                   Cardinality(T) <= MaxTapes } }

ConfiguredPools == {"FEB_3"}

\* self.jukebox_name, from the configuration document
jukebox_name == "JB_TEST"

\* data.get(key) of a configuration document, a mapping from the keys
\* written in it to "given" (a value) or "null": None for a key that is
\* not written and for one written with null
Get(data, key) ==
    IF key \in DOMAIN data /\ data[key] = "given" THEN "given" ELSE "None"

\* self.jukebox_name is None: the document of the run (the run is studied
\* from its start-up on) gives no jukebox name
JukeboxMissing ==
    fn_pc = "started" /\ Get(fn_in.data, "jukebox_name") = "None"

\* what execute_ssh_command returns: False, or the captured output
SshResults == {"False", "output"}

\* how the nsrmm child process ends: it answers, it answers on stderr, or
\* Popen / the write to its stdin raises (OSError, BrokenPipeError)
NsrmmOutcomes == {"ok", "stderr", "raise"}

\* how subprocess.run(check=True) of nsrjb ends: the command passed, it
\* returned a non-zero status (CalledProcessError, caught), or it could not
\* be started (FileNotFoundError, PermissionError, OSError: not caught)
NsrjbOutcomes == {"ok", "CalledProcessError", "raise"}

Ev(kind, cmd, tape, res) ==
    [kind |-> kind, cmd |-> cmd, tape |-> tape, res |-> res]

\* a handler that throws away what was parsed before the exception
Discarded(acc) == <<>>

\* "except Exception as e: self.log_message(e)" around the loop of a parser:
\* the list built so far is what the code after the handler goes on with
Caught(acc) == acc

(***************************************************************************)
(* open_system_vtl_reset.py                                                *)
(***************************************************************************)
\* OpenSystemVTLReset.check_state
check_state_reset(tape_info) == StrContains(Strip(tape_info.state), "RL")

\* OpenSystemVTLReset.check_retention_date, the clock showing micro
\* microseconds after the second of NowText; the ValueError of strptime and
\* of timestamp() is reported as "raise"
check_retention_date(tape_info, micro) ==
    IF tape_info.retention_time # "n/a"
    THEN IF \/ ~ValidTimeText(tape_info.retention_time)
            \/ TimestampRaises(tape_info.retention_time)
         THEN "raise"
         ELSE IF TimestampGreater(Timestamp(NowText), micro,
                                  Timestamp(tape_info.retention_time))
              THEN "True" ELSE "False"
    ELSE "False"

\* the loop body of get_tapes_by_pool over parsed rows: the rows selected
\* up to the first exception
RECURSIVE SelectExpired(_, _)
SelectExpired(rows, micro) ==
    IF rows = <<>> THEN <<>>
    ELSE LET t   == Head(rows)
             dbg == IF t.barcode = "TEST01L5" THEN <<t>> ELSE <<>>
             st  == check_state_reset(t)
             rd  == check_retention_date(t, micro)
         IN  IF rd = "raise" THEN dbg
             ELSE dbg \o (IF st /\ rd = "True" THEN <<t>> ELSE <<>>)
                      \o SelectExpired(Tail(rows), micro)

\* no single call is under study
FnIdle ==
    /\ fn_pc = "idle"
    /\ fn_in = <<>>
    /\ fn_out = <<>>

\* the lock workflow is a program of its own: it is not running
LockIdle ==
    /\ lock_pc = "idle"
    /\ config = <<>>
    /\ VTL_STATUS = FALSE
    /\ pool_retention_lock_enabled = FALSE
    /\ report = <<>>
    /\ tape_list = <<>>
    /\ lock_idx = 0
    /\ tape_list_result = <<>>
    /\ lock_log = <<>>

ResetInit ==
    /\ LockIdle
    /\ FnIdle
    /\ pc = "get_tapes"
    /\ pool \in ConfiguredPools
    /\ retention_locked_tape_list = <<>>
    /\ created_tapes = <<>>
    /\ idx = 0
    /\ local_created_tapes = <<>>
    /\ failed_tape_while_export = <<>>
    /\ failed_tape_while_remove = <<>>
    /\ failed_tape_while_create = <<>>
    /\ failed_tape_while_import = <<>>
    /\ failed_tape_while_delete_on_networker = <<>>
    /\ log = <<>>

buckets == <<local_created_tapes, failed_tape_while_export,
             failed_tape_while_remove, failed_tape_while_create,
             failed_tape_while_import, failed_tape_while_delete_on_networker>>

\* OpenSystemVTLReset.get_tapes_by_pool
get_tapes_by_pool ==
    /\ UNCHANGED <<lockVars, fnVars>>
    /\ pc = "get_tapes"
    /\ \E res \in SshResults, rows \in Listings, micro \in NowMicros :
         /\ res = "False" => rows = <<>>
         /\ log' = Append(log,
                Ev("ssh", "vtl tape show pool " \o pool
                          \o " time-display retention sort-by state ascending",
                   0, res))
         /\ retention_locked_tape_list' =
                IF res = "False" \/ rows = <<>> THEN <<>>
                ELSE SelectExpired(rows, micro)
    /\ pc' = "remove_retention_locked_tapes"
    /\ UNCHANGED <<pool, created_tapes, idx, buckets>>

\* the tape of the current loop iteration
rl_tape == retention_locked_tape_list[idx]

\* remove_retention_locked_tapes: entry, "if len(...) > 0" and the
\* initialisation of the local lists
remove_retention_locked_tapes ==
    /\ UNCHANGED <<lockVars, fnVars>>
    /\ pc = "remove_retention_locked_tapes"
    /\ IF Len(retention_locked_tape_list) > 0
       THEN /\ idx' = 1
            /\ pc' = "delete"
       ELSE /\ idx' = 0
            /\ pc' = "check_result"
    /\ local_created_tapes' = <<>>
    /\ failed_tape_while_export' = <<>>
    /\ failed_tape_while_remove' = <<>>
    /\ failed_tape_while_create' = <<>>
    /\ failed_tape_while_import' = <<>>
    /\ failed_tape_while_delete_on_networker' = <<>>
    /\ UNCHANGED <<pool, retention_locked_tape_list, created_tapes, log>>

\* the end of one loop iteration: the next tape, or the code after the loop
NextTape ==
    /\ idx' = idx + 1
    /\ pc' = IF idx + 1 > Len(retention_locked_tape_list)
             THEN "end_of_batch" ELSE "delete"

\* utils.run_nsrmm_command: the value returned when the call returns; only
\* subprocess.CalledProcessError, which Popen never raises, gives False
run_nsrmm_command(outcome) ==
    IF outcome = "CalledProcessError" THEN FALSE ELSE TRUE

\* utils.run_nsrjb_command
run_nsrjb_command(outcome) ==
    IF outcome = "CalledProcessError" THEN FALSE ELSE TRUE

\* a pipeline that goes on without pausing
NoSettle(k) == <<>>

\* time.sleep(60) while the tape at position k is handled: the fixed pause
\* after run_nsrmm_command and before the labeling
Settle(k) == << Ev("sleep", "60", k, "ok") >>

\* stage 1: nsrmm -d <barcode>, then time.sleep(60)
CatalogDelete ==
    /\ UNCHANGED <<lockVars, fnVars>>
    /\ pc = "delete"
    /\ \E outcome \in NsrmmOutcomes :
         LET cmd == "nsrmm -d " \o rl_tape.barcode IN
         IF outcome = "raise"
         THEN /\ log' = Append(log, Ev("nsrmm", cmd, idx, outcome))
              /\ pc' = "crashed"
              /\ UNCHANGED <<idx, failed_tape_while_delete_on_networker>>
         ELSE /\ log' = log \o << Ev("nsrmm", cmd, idx, outcome) >>
                             \o Settle(idx)
              /\ IF run_nsrmm_command(outcome)
                 THEN /\ pc' = "export"
                      /\ UNCHANGED <<idx, failed_tape_while_delete_on_networker>>
                 ELSE /\ failed_tape_while_delete_on_networker' =
                             Append(failed_tape_while_delete_on_networker, rl_tape)
                      /\ NextTape
    /\ UNCHANGED <<pool, retention_locked_tape_list, created_tapes,
                   local_created_tapes, failed_tape_while_export,
                   failed_tape_while_remove, failed_tape_while_create,
                   failed_tape_while_import>>

\* export_tape_from_library: the command it issues, "" when it issues none
ExportCommand(tape) ==
    LET slot         == TrailingDigits(tape.location)
        library_name == FirstField(tape.location)
    IN  IF slot # "" /\ library_name # "vault"
        THEN "vtl export " \o library_name \o " slot " \o slot
        ELSE ""

\* export_tape_from_library: its return value ("None" when the function
\* falls off its end without a return)
export_tape_from_library(tape, res) ==
    IF ExportCommand(tape) # ""
    THEN IF res = "False" THEN "False" ELSE "True"
    ELSE "None"

\* stage 2
Export ==
    /\ UNCHANGED <<lockVars, fnVars>>
    /\ pc = "export"
    /\ \E res \in SshResults :
         /\ ExportCommand(rl_tape) = "" => res = "False"
         /\ log' = IF ExportCommand(rl_tape) # ""
                   THEN Append(log, Ev("ssh", ExportCommand(rl_tape), idx, res))
                   ELSE log
         /\ IF export_tape_from_library(rl_tape, res) = "True"
            THEN /\ pc' = "remove"
                 /\ UNCHANGED <<idx, failed_tape_while_export>>
            ELSE /\ failed_tape_while_export' =
                        Append(failed_tape_while_export, rl_tape)
                 /\ NextTape
    /\ UNCHANGED <<pool, retention_locked_tape_list, created_tapes,
                   local_created_tapes, failed_tape_while_remove,
                   failed_tape_while_create, failed_tape_while_import,
                   failed_tape_while_delete_on_networker>>

\* execute_tape_remove_commmand: its return value
execute_tape_remove_commmand(res) == res # "False"

\* stage 3
Remove ==
    /\ UNCHANGED <<lockVars, fnVars>>
    /\ pc = "remove"
    /\ \E res \in SshResults :
         /\ log' = Append(log,
                Ev("ssh", "vtl tape del " \o rl_tape.barcode \o " pool " \o pool,
                   idx, res))
         /\ IF execute_tape_remove_commmand(res)
            THEN /\ pc' = "create"
                 /\ UNCHANGED <<idx, failed_tape_while_remove>>
            ELSE /\ failed_tape_while_remove' =
                        Append(failed_tape_while_remove, rl_tape)
                 /\ NextTape
    /\ UNCHANGED <<pool, retention_locked_tape_list, created_tapes,
                   local_created_tapes, failed_tape_while_export,
                   failed_tape_while_create, failed_tape_while_import,
                   failed_tape_while_delete_on_networker>>

\* create_tape: "size_value, size_unit = size_str.split()" and
\* "int(size_value)" raise ValueError unless the size is two tokens, the
\* first an integer literal
CreateRaises(tape) ==
    LET tokens == SplitWs(Strip(tape.size), "")
    IN  Len(tokens) # 2 \/ ~IntLiteral(tokens[1])

\* create_tape: the command it issues
CreateCommand(tape) ==
    "vtl tape add " \o tape.barcode \o " capacity "
        \o ParseInt(SplitWs(Strip(tape.size), "")[1])
        \o " pool " \o pool

\* create_tape: its return value
create_tape(res) == res # "False"

\* stage 4
Create ==
    /\ UNCHANGED <<lockVars, fnVars>>
    /\ pc = "create"
    /\ IF CreateRaises(rl_tape)
       THEN /\ pc' = "crashed"
            /\ UNCHANGED <<idx, log, failed_tape_while_create>>
       ELSE \E res \in SshResults :
            /\ log' = Append(log, Ev("ssh", CreateCommand(rl_tape), idx, res))
            /\ IF create_tape(res)
               THEN /\ pc' = "import"
                    /\ UNCHANGED <<idx, failed_tape_while_create>>
               ELSE /\ failed_tape_while_create' =
                           Append(failed_tape_while_create, rl_tape)
                    /\ NextTape
    /\ UNCHANGED <<pool, retention_locked_tape_list, created_tapes,
                   local_created_tapes, failed_tape_while_export,
                   failed_tape_while_remove, failed_tape_while_import,
                   failed_tape_while_delete_on_networker>>

\* import_tape_from_library: the command it issues, "" when it issues none
ImportCommand(tape) ==
    LET library_name == FirstField(tape.location)
    IN  IF library_name # "vault"
        THEN "vtl import " \o library_name \o " barcode " \o tape.barcode
                 \o " count 1 pool " \o pool \o " element slot"
        ELSE ""

\* import_tape_from_library: its return value
import_tape_from_library(tape, res) ==
    IF ImportCommand(tape) # "" THEN res # "False" ELSE FALSE

\* stage 5
Import ==
    /\ UNCHANGED <<lockVars, fnVars>>
    /\ pc = "import"
    /\ \E res \in SshResults :
         /\ ImportCommand(rl_tape) = "" => res = "False"
         /\ log' = IF ImportCommand(rl_tape) # ""
                   THEN Append(log, Ev("ssh", ImportCommand(rl_tape), idx, res))
                   ELSE log
         /\ IF import_tape_from_library(rl_tape, res)
            THEN /\ pc' = "label"
                 /\ UNCHANGED <<idx, failed_tape_while_import>>
            ELSE /\ failed_tape_while_import' =
                        Append(failed_tape_while_import, rl_tape)
                 /\ NextTape
    /\ UNCHANGED <<pool, retention_locked_tape_list, created_tapes,
                   local_created_tapes, failed_tape_while_export,
                   failed_tape_while_remove, failed_tape_while_create,
                   failed_tape_while_delete_on_networker>>

\* the list the barcode of a tape whose labeling returned `labeling` is
\* appended to
AfterLabel(labeling, barcode) == Append(local_created_tapes, barcode)

\* utils.run_nsrjb_command: time.sleep(60) after a command that passed
Refresh(outcome, k) ==
    IF outcome = "ok" THEN << Ev("sleep", "60", k, "run_nsrjb_command") >>
    ELSE <<>>

\* stage 6: time.sleep(60), nsrjb -L ..., created_tapes.append; an
\* exception other than CalledProcessError leaves run_nsrjb_command,
\* remove_retention_locked_tapes and the process: the TypeError of
\* "' '.join(command)" on a jukebox name that is None, before the command
\* is started, or the exception of a command that cannot be started
Label ==
    /\ UNCHANGED <<lockVars, fnVars>>
    /\ pc = "label"
    /\ IF JukeboxMissing
       THEN /\ log' = log \o Settle(idx)
            /\ pc' = "crashed"
            /\ UNCHANGED <<idx, local_created_tapes>>
       ELSE \E outcome \in NsrjbOutcomes :
              /\ log' = log \o Settle(idx) \o
                     << Ev("nsrjb", "nsrjb -L -j " \o jukebox_name \o " -b" \o pool
                                        \o " -T " \o rl_tape.barcode \o " -Y",
                           idx, outcome) >>
                     \o Refresh(outcome, idx)
              /\ IF outcome = "raise"
                 THEN /\ pc' = "crashed"
                      /\ UNCHANGED <<idx, local_created_tapes>>
                 ELSE /\ local_created_tapes' =
                             AfterLabel(run_nsrjb_command(outcome), rl_tape.barcode)
                      /\ NextTape
    /\ UNCHANGED <<pool, retention_locked_tape_list, created_tapes,
                   failed_tape_while_export, failed_tape_while_remove,
                   failed_tape_while_create, failed_tape_while_import,
                   failed_tape_while_delete_on_networker>>

\* remove_retention_locked_tapes: after the loop, the failure lists are
\* logged and "self.created_tapes = created_tapes"
\* one failure list as it is logged after the loop: its heading and the
\* records of json.dumps, nothing when the list is empty
LoggedList(heading, failed) ==
    IF Len(failed) > 0 THEN << Ev("log", heading, 0, failed) >> ELSE <<>>

\* the failure lists logged after the loop, in the order of the code
FailureLists ==
    LoggedList("[START][FAILED] List of tapes failed while export from library",
               failed_tape_while_export)
    \o LoggedList("[START][FAILED] Listing tapes failed while remove from pool",
                  failed_tape_while_remove)
    \o LoggedList("[START][FAILED] List of tapes failed while create on pool",
                  failed_tape_while_create)
    \o LoggedList("[START][FAILED] List of tapes failed while import into pool",
                  failed_tape_while_import)

EndOfBatch ==
    /\ UNCHANGED <<lockVars, fnVars>>
    /\ pc = "end_of_batch"
    /\ log' = log \o FailureLists
    /\ created_tapes' = local_created_tapes
    /\ pc' = "check_result"
    /\ UNCHANGED <<pool, retention_locked_tape_list, idx, buckets>>

\* check_result / get_result: the final listing is fetched when
\* self.created_tapes is not empty
check_result ==
    /\ UNCHANGED <<lockVars, fnVars>>
    /\ pc = "check_result"
    /\ IF Len(created_tapes) > 0
       THEN \E res \in SshResults :
              log' = Append(log,
                  Ev("ssh", "vtl tape show pool " \o pool
                            \o " sort-by modtime descending", 0, res))
       ELSE log' = log
    /\ pc' = "done"
    /\ UNCHANGED <<pool, retention_locked_tape_list, created_tapes, idx,
                   buckets>>

ResetNext ==
    \/ get_tapes_by_pool
    \/ remove_retention_locked_tapes
    \/ CatalogDelete
    \/ Export
    \/ Remove
    \/ Create
    \/ Import
    \/ Label
    \/ EndOfBatch
    \/ check_result

SpecReset == ResetInit /\ [][ResetNext]_vars

\* the reclaim run as the interpreter executes it: a statement that can be
\* executed is executed, and every remote command returns
SpecResetFair == SpecReset /\ WF_vars(ResetNext)

(***************************************************************************)
(* Inputs of the lock workflow                                             *)
(***************************************************************************)
\* values of the configuration document
PyNone == [t |-> "None", v |-> 0]

PyInt(n) == [t |-> "int", v |-> n]

\* a boolean (v is 1 for True, 0 for False) and a string of the document
PyBool(b) == [t |-> "bool", v |-> IF b THEN 1 ELSE 0]

PyText(n) == [t |-> "str", v |-> n]

\* "x is not None and isinstance(x, int) and x > 0": bool is a subclass of
\* int, and True > 0
PositiveInt(x) == x.t \in {"int", "bool"} /\ x.v > 0

\* str(x) of a value that passed that test
PyStr(x) == IF x.t = "bool" THEN "True" ELSE IntToStr(x.v)

\* the retention periods of a tape: (daily in days, monthly in years)
TapePeriods ==
    { <<PyNone, PyNone>>, <<PyInt(30), PyNone>>, <<PyInt(0), PyInt(2)>>,
      <<PyInt(30), PyInt(2)>> }

\* the bounds of the mtree: (min daily, min monthly, max daily, max monthly)
MtreePeriods ==
    { <<PyNone, PyNone, PyNone, PyNone>>,
      <<PyInt(1), PyInt(0), PyInt(30), PyNone>>,
      <<PyInt(1), PyInt(7), PyInt(30), PyInt(2)>> }

\* the configuration documents of the lock workflow (load_input_params)
Configs ==
    { [ pool_name |-> "FEB_3",
        retention_lock_period_for_tapes_in_days |-> tp[1],
        retention_lock_period_for_tapes_for_monthly_in_years |-> tp[2],
        minimum_retention_lock_period_daily_backup_in_days |-> mp[1],
        minimum_retention_lock_period_monthly_backup_in_days |-> mp[2],
        maximum_retention_lock_period_daily_backup_in_days |-> mp[3],
        maximum_retention_lock_period_monthly_backup_in_years |-> mp[4],
        mechanism |-> 1,
        minimum_tape_usage |-> "1 GiB" ] :
      tp \in TapePeriods, mp \in MtreePeriods }

\* what execute_ssh_command returns: False, or the captured output
SshFalse == [ok |-> FALSE, out |-> ""]

SshOut(text) == [ok |-> TRUE, out |-> text]

\* Python "if data" / "if not data" of such a value
Truthy(r) == r.ok /\ r.out # ""

\* answers to "vtl status"
VtlStatusAnswers ==
    { SshFalse,
      SshOut("VTL admin_state: enabled, process_state: running, licensed"),
      SshOut("VTL admin_state: disabled, process_state: stopped, licensed") }

\* answers to "mtree retention-lock status mtree ..."
MtreeStatusAnswers ==
    { SshFalse,
      SshOut("Option  Value\n------  -----\nRetention-lock  enabled\n"
             \o "Retention-lock mode  governance\n------  -----"),
      SshOut("Option  Value\n------  -----\nRetention-lock  disabled\n"
             \o "Retention-lock mode  none\n------  -----"),
      SshOut("Option  Value\n------  -----\nRetention-lock  enabled\n"
             \o "Retention-lock mode  compliance\n------  -----") }

\* answers to "mtree retention-lock enable mode governance mtree ..."
EnableAnswers ==
    { SshFalse,
      SshOut(""),
      SshOut("Retention-lock feature is enabled for /data/col1/FEB_3 in governance mode"),
      SshOut("**** Retention-lock feature is not licensed") }

(***************************************************************************)
(* open_system_vtl_immutable.py                                            *)
(***************************************************************************)
\* the reset workflow is a program of its own: it is not running
ResetIdle ==
    /\ pc = "idle"
    /\ pool = ""
    /\ retention_locked_tape_list = <<>>
    /\ created_tapes = <<>>
    /\ idx = 0
    /\ local_created_tapes = <<>>
    /\ failed_tape_while_export = <<>>
    /\ failed_tape_while_remove = <<>>
    /\ failed_tape_while_create = <<>>
    /\ failed_tape_while_import = <<>>
    /\ failed_tape_while_delete_on_networker = <<>>
    /\ log = <<>>

\* OpenSystem.__init__, load_input_params and validate_input_parameters
LockInit ==
    /\ ResetIdle
    /\ FnIdle
    /\ lock_pc = "check_vtl_state"
    /\ config \in Configs
    /\ VTL_STATUS = FALSE
    /\ pool_retention_lock_enabled = FALSE
    /\ report = <<>>
    /\ tape_list = <<>>
    /\ lock_idx = 0
    /\ tape_list_result = <<>>
    /\ lock_log = <<>>

\* OpenSystem.check_vtl_state: the value of the "if"
VtlHealthy(vtl_status) ==
    /\ Truthy(vtl_status)
    /\ StrContains(vtl_status.out, "enabled")
    /\ StrContains(vtl_status.out, "running")
    /\ StrContains(vtl_status.out, "licensed")

\* OpenSystem.check_vtl_state
check_vtl_state ==
    /\ lock_pc = "check_vtl_state"
    /\ \E vtl_status \in VtlStatusAnswers :
         /\ lock_log' = Append(lock_log, Ev("ssh", "vtl status", 0, vtl_status))
         /\ VTL_STATUS' = IF VtlHealthy(vtl_status) THEN TRUE ELSE VTL_STATUS
    /\ lock_pc' = "get_pool_info"
    /\ UNCHANGED <<config, pool_retention_lock_enabled, report, tape_list,
                   lock_idx, tape_list_result>>
    /\ UNCHANGED <<resetVars, fnVars>>

\* check_pool_retention_lock_governance_mode: the loop over the lines of
\* the status text from line i on; acc is <<retention_lock, governance>>
\* and an exception (a line with fewer than two fields) ends the loop
RECURSIVE GovernanceScan(_, _, _)
GovernanceScan(lines, i, acc) ==
    IF lines = <<>> THEN acc
    ELSE LET line   == Split(Head(lines), "  ")
             hyphen == StartsWith(line[1], "--")
             arr    == NonBlankStripped(line)
         IN  IF i > 2 /\ hyphen THEN acc
             ELSE IF i <= 2 THEN GovernanceScan(Tail(lines), i + 1, acc)
             ELSE IF Len(arr) < 2 THEN acc
             ELSE IF arr[1] = "Retention-lock" /\ arr[2] = "enabled"
                  THEN GovernanceScan(Tail(lines), i + 1, <<TRUE, acc[2]>>)
             ELSE IF arr[1] = "Retention-lock mode" /\ arr[2] = "governance"
                  THEN GovernanceScan(Tail(lines), i + 1, <<acc[1], TRUE>>)
             ELSE GovernanceScan(Tail(lines), i + 1, acc)

\* a query that is content with the enabled flag, whatever the mode
EnabledAlone(data) ==
    IF ~data.ok THEN FALSE
    ELSE GovernanceScan(Split(data.out, "\n"), 1, <<FALSE, FALSE>>)[1]

\* check_pool_retention_lock_governance_mode: the value it leaves in
\* self.pool_retention_lock_enabled; data.split of False raises, and the
\* exception is caught
GovernanceEnabled(data) ==
    IF ~data.ok THEN FALSE
    ELSE LET acc == GovernanceScan(Split(data.out, "\n"), 1, <<FALSE, FALSE>>)
         IN  acc[1] /\ acc[2]

\* OpenSystem.get_pool_info with check_pool_retention_lock_governance_mode
get_pool_info ==
    /\ lock_pc = "get_pool_info"
    /\ IF VTL_STATUS = TRUE
       THEN \E data \in MtreeStatusAnswers :
              /\ lock_log' = Append(lock_log,
                     Ev("ssh", "mtree retention-lock status mtree /data/col1/"
                               \o config.pool_name, 0, data))
              /\ pool_retention_lock_enabled' = GovernanceEnabled(data)
       ELSE UNCHANGED <<lock_log, pool_retention_lock_enabled>>
    /\ lock_pc' = "generate_filesys_report"
    /\ UNCHANGED <<config, VTL_STATUS, report, tape_list, lock_idx,
                   tape_list_result>>
    /\ UNCHANGED <<resetVars, fnVars>>

(***************************************************************************)
(* The appliance's tables read by the lock workflow                        *)
(***************************************************************************)
\* longest tape listing (number of tape rows) answered to the lock workflow
MaxLockTapes == 2

LockTape(b, l, st, sz, u, mt) ==
    [barcode |-> b, pool_name |-> "FEB_3", location |-> l, state |-> st,
     size |-> sz, used |-> u, comp |-> "8x", modification_time |-> mt]

\* the tapes of the pool, most recently modified first
LockCatalogue ==
    << LockTape("A00001L5", "Pool_TEST slot 1", "RW", "5 GiB",
                "2.5 GiB (50.00%)", "2025/02/17 09:30:00"),
       LockTape("A00002L5", "Pool_TEST slot 2", "RW", "5 GiB",
                "0.0 GiB (0.00%)", "2025/02/17 09:00:00"),
       LockTape("A00003L5", "vault", "RW", "5 GiB",
                "1.0 GiB (20.00%)", "2025/02/17 08:00:00"),
       LockTape("A00004L5", "Pool_TEST slot 4", "RO/RL*", "5 GiB",
                "1.0 GiB (20.00%)", "2025/02/17 07:00:00"),
       LockTape("A00005L5", "Pool_TEST slot 5", "RW", "5 GiB",
                "1.0 GiB (20.00%)", "2025/02/16 23:00:00") >>

RECURSIVE PickLockRows(_, _)
PickLockRows(rows, chosen) ==
    IF rows = <<>> THEN <<>>
    ELSE (IF Len(rows) \in chosen THEN <<Head(rows)>> ELSE <<>>)
             \o PickLockRows(Tail(rows), chosen)

\* the listings "sort-by modtime descending" can show: at most MaxLockTapes
\* rows of the catalogue, in the catalogue's order
LockListings ==
    { PickLockRows(LockCatalogue, chosen) :
        chosen \in { c \in SUBSET (1..Len(LockCatalogue)) :
                         Cardinality(c) <= MaxLockTapes } }

\* one row of "vtl tape show pool ..."
LockRowText(r) ==
    r.barcode \o "   " \o r.pool_name \o "   " \o r.location \o "   "
        \o r.state \o "   " \o r.size \o "   " \o r.used \o "   "
        \o r.comp \o "   " \o r.modification_time

RECURSIVE LockRowsText(_)
LockRowsText(rows) ==
    IF rows = <<>> THEN ""
    ELSE LockRowText(Head(rows)) \o "\n" \o LockRowsText(Tail(rows))

ListingRule ==
    "--------   -----   ----------------   -----   -----   ----------------"
        \o "   ----   -------------------"

\* the text of "vtl tape show pool ..." for the given rows
ListingText(rows) ==
    "Processing tapes....\n"
        \o "Barcode    Pool    Location           State   Size    Used (%)"
        \o "           Comp   Modification Time\n"
        \o ListingRule \o "\n" \o LockRowsText(rows) \o ListingRule

\* answers to "vtl tape show pool <pool> sort-by modtime descending"
ListingAnswers ==
    {SshFalse} \cup { SshOut(ListingText(rows)) : rows \in LockListings }

\* answers to "filesys report generate file-location path ..."
ReportAnswers ==
    { SshFalse,
      SshOut("File Distribution\n"
             \o "File Name\tLocation Unit\tSize\tPlacement Time\n"
             \o "---------\t-------------\t----\t--------------\n"
             \o "/data/col1/FEB_3/A00002L5\tActive\t5 GiB\tMon Feb 17 09:00:00 2025\n"
             \o "---------\t-------------\t----\t--------------") }

\* answers to a "mtree retention-lock set ..." or "vtl tape modify ..." command
SetAnswers == { SshFalse, SshOut("") }

\* the row the appliance shows for a tape of the list, in state st
RequeryRow(tape, st) ==
    LockTape(tape.barcode, tape.location, st, tape.size, tape.used,
             tape.modification_time)

\* answers to "vtl tape show pool <pool> barcode <barcode>" after the
\* modify command: failure, the tape locked, the tape as it was, no row
RequeryAnswers(tape) ==
    { SshFalse,
      SshOut(ListingText(<<RequeryRow(tape, "RO/RL*")>>)),
      SshOut(ListingText(<<RequeryRow(tape, tape.state)>>)),
      SshOut(ListingText(<<>>)) }

\* what the history keeps of the answer to a table command (report or
\* pool listing): whether it came, the rows being kept by the workflow
Table(answer) == [ok |-> answer.ok, out |-> IF answer.ok THEN "(table)" ELSE ""]

\* a line written with log_message
Msg(text, k) == Ev("log", text, k, SshOut(""))

(***************************************************************************)
(* open_system_vtl_immutable.py: report, listing and eligibility           *)
(***************************************************************************)
\* generate_filesys_report: the loop over the lines of the report from line
\* i on; an exception (a line with fewer than four fields) ends the loop
RECURSIVE ReportScan(_, _, _)
ReportScan(lines, i, acc) ==
    IF lines = <<>> THEN acc
    ELSE LET line   == Split(Head(lines), "\t")
             hyphen == StartsWith(line[1], "--")
             tape   == NonBlankStripped(line)
         IN  IF i > 3 /\ hyphen THEN acc
             ELSE IF i <= 3 THEN ReportScan(Tail(lines), i + 1, acc)
             ELSE IF Len(tape) < 4 THEN Caught(acc)
             ELSE ReportScan(Tail(lines), i + 1,
                      Append(acc, [file_name |-> tape[1], size |-> tape[3],
                                   placement_time |-> tape[4]]))

\* OpenSystem.generate_filesys_report
generate_filesys_report ==
    /\ lock_pc = "generate_filesys_report"
    /\ \E answer \in ReportAnswers :
         /\ lock_log' = Append(lock_log,
                Ev("ssh", "filesys report generate file-location path /data/col1/"
                          \o config.pool_name, 0, Table(answer)))
         /\ report' = IF ~answer.ok THEN <<>>
                      ELSE ReportScan(Split(answer.out, "\n"), 1, <<>>)
    /\ lock_pc' = "get_tapes"
    /\ UNCHANGED <<config, VTL_STATUS, pool_retention_lock_enabled, tape_list,
                   lock_idx, tape_list_result>>
    /\ UNCHANGED <<resetVars, fnVars>>

\* check_usage_in_report: the first placement record naming the barcode
MatchingReports(tape_info) ==
    { i \in 1..Len(report) : StrContains(report[i].file_name, tape_info.barcode) }

\* strptime of the modification time, or timestamp() of its midnight,
\* raises ValueError
ModificationRaises(tape_info) ==
    \/ ~ValidTimeText(tape_info.modification_time)
    \/ TimestampRaises(tape_info.modification_time)

\* strptime of the placement time of a report record, or timestamp() of
\* its midnight, raises ValueError
PlacementRaises(tape_report_data) ==
    \/ ~ValidPlacementTime(tape_report_data.placement_time)
    \/ PlacementDayOf(tape_report_data.placement_time) = DaysFromCivil(1, 1, 1)

\* OpenSystem.check_usage_in_report: "True", "False", or "None" when an
\* exception was caught
check_usage_in_report(tape_info) ==
    IF MatchingReports(tape_info) = {} THEN "False"
    ELSE LET tape_report_data ==
                 report[CHOOSE i \in MatchingReports(tape_info) :
                            \A j \in MatchingReports(tape_info) : i <= j]
         IN  IF SizeRaises(config.minimum_tape_usage)
                  \/ SizeRaises(tape_report_data.size)
             THEN "None"
             ELSE IF BytesGreater(size_to_bytes(tape_report_data.size),
                                  size_to_bytes(config.minimum_tape_usage))
                  THEN IF \/ ModificationRaises(tape_info)
                          \/ PlacementRaises(tape_report_data)
                       THEN "None"
                       ELSE "True"
                  ELSE "False"

\* OpenSystem.check_used raises (float of the first token of "used")
CheckUsedRaises(tape_info) ==
    ~FloatLiteral(SplitWs(tape_info.used, "")[1])

\* OpenSystem.check_used
check_used(tape_info) ==
    \/ FloatPositive(SplitWs(tape_info.used, "")[1])
    \/ check_usage_in_report(tape_info) = "True"

\* OpenSystem.check_state
check_state(tape_info) == ~StrContains(Strip(tape_info.state), "RL")

\* a date test that takes today and yesterday alike, whatever the mechanism
ModifiedTodayOrYesterday(tape_info, mechanism) ==
    \/ DayOf(NowText) = DayOf(tape_info.modification_time)
    \/ DayOf(NowText) - 1 = DayOf(tape_info.modification_time)

\* OpenSystem.check_modification_date
check_modification_date(tape_info, mechanism) ==
    IF DayOf(NowText) = DayOf(tape_info.modification_time) /\ mechanism = 1
    THEN TRUE
    ELSE IF DayOf(NowText) - 1 = DayOf(tape_info.modification_time)
              /\ mechanism = 2
         THEN TRUE
         ELSE FALSE

\* the heading list of get_tapes and get_result (the missing comma joins
\* 'Average Compression:' and '--------')
heading ==
    { "Processing tapes....", "Barcode", "Pool", "Location", "State", "Size",
      "Used (%)", "Comp", "Modification Time", "Total size of tapes:",
      "Total pools:", "Total number of tapes:", "Average Compression:--------",
      " --------------------", " -----------------------", " -----",
      " --------", " ----------------", " ----", " -------------------" }

\* get_tapes / get_result: the line is skipped before its fields are read
SkippedLine(line) ==
    \/ Strip(line[1]) = ""
    \/ \E i \in 1..Len(line) : line[i] \in heading
    \/ Len(line) < 2

tape_info_of(tapes) ==
    [barcode |-> tapes[1], pool_name |-> tapes[2], location |-> tapes[3],
     state |-> tapes[4], size |-> tapes[5], used |-> tapes[6],
     modification_time |-> tapes[8]]

\* get_tapes: the test that puts a record in the list
Eligible(tape_info) ==
    /\ StrContains(tape_info.location, "slot")
    /\ check_used(tape_info)
    /\ check_state(tape_info)
    /\ check_modification_date(tape_info, config.mechanism)

\* get_tapes: the loop over the lines of the listing; an exception raised
\* by check_used or check_modification_date ends the loop
RECURSIVE TapesScan(_, _)
TapesScan(lines, acc) ==
    IF lines = <<>> THEN acc
    ELSE LET line  == Split(Head(lines), "  ")
             tapes == NonBlankStripped(line)
         IN  IF SkippedLine(line) \/ Len(tapes) # 8
             THEN TapesScan(Tail(lines), acc)
             ELSE IF CheckUsedRaises(tape_info_of(tapes))
                       \/ ModificationRaises(tape_info_of(tapes))
                  THEN Caught(acc)
                  ELSE IF Eligible(tape_info_of(tapes))
                       THEN TapesScan(Tail(lines),
                                Append(acc, tape_info_of(tapes)))
                       ELSE TapesScan(Tail(lines), acc)

\* OpenSystem.get_tapes
get_tapes ==
    /\ lock_pc = "get_tapes"
    /\ \E pool_data \in ListingAnswers :
         /\ lock_log' = Append(lock_log,
                Ev("ssh", "vtl tape show pool " \o config.pool_name
                          \o " sort-by modtime descending", 0, Table(pool_data)))
         /\ tape_list' = IF ~Truthy(pool_data) THEN tape_list
                         ELSE TapesScan(Split(pool_data.out, "\n"), <<>>)
    /\ lock_pc' = "main"
    /\ UNCHANGED <<config, VTL_STATUS, pool_retention_lock_enabled, report,
                   lock_idx, tape_list_result>>
    /\ UNCHANGED <<resetVars, fnVars>>

\* __main__: the else branch of "if len(open_system_obj.tape_list) > 0"
NoTapes ==
    /\ lock_pc = "main"
    /\ ~(Len(tape_list) > 0)
    /\ lock_log' = Append(lock_log, Msg("No Tapes are available", 0))
    /\ lock_pc' = "end"
    /\ UNCHANGED <<config, VTL_STATUS, pool_retention_lock_enabled, report,
                   tape_list, lock_idx, tape_list_result>>
    /\ UNCHANGED <<resetVars, fnVars>>

(***************************************************************************)
(* open_system_vtl_immutable.py: governance of the pool                    *)
(***************************************************************************)
EnableCommand ==
    "mtree retention-lock enable mode governance mtree /data/col1/"
        \o config.pool_name

\* enable_retention_lock_pool: the condition under which it acts
EnableGuard == Len(tape_list) > 0 /\ pool_retention_lock_enabled = FALSE

\* an enable step that takes every answer but the failure signal as a
\* confirmation
EnabledUnlessFalse(data) == data.ok

\* enable_retention_lock_pool: the state the response leaves
EnabledBy(data) ==
    IF ~data.ok THEN FALSE
    ELSE IF StrContains(Strip(data.out), "Retention-lock feature is enabled")
         THEN TRUE
         ELSE FALSE

\* the line both enable_retention_lock_pool and
\* apply_retention_lock_to_tapes log for a pool left without governance
EnableFailed ==
    Msg("Failed to enable Retention-Lock Governance Mode for pool "
        \o config.pool_name, 0)

\* OpenSystem.enable_retention_lock_pool: the command, and the failure
\* line of both branches that leave the pool without governance
enable_retention_lock_pool ==
    /\ lock_pc = "main"
    /\ Len(tape_list) > 0
    /\ IF EnableGuard
       THEN \E data \in EnableAnswers :
              /\ lock_log' = lock_log \o <<Ev("ssh", EnableCommand, 0, data)>>
                     \o (IF EnabledBy(data) THEN <<>> ELSE <<EnableFailed>>)
              /\ pool_retention_lock_enabled' = EnabledBy(data)
       ELSE UNCHANGED <<lock_log, pool_retention_lock_enabled>>
    /\ lock_pc' = "set_min_retention_lock_period_pool"
    /\ UNCHANGED <<config, VTL_STATUS, report, tape_list, lock_idx,
                   tape_list_result>>
    /\ UNCHANGED <<resetVars, fnVars>>

\* a period string in which the daily value is kept when both are given
DailyWins(daily, daily_unit, monthly, monthly_unit) ==
    IF PositiveInt(daily) THEN PyStr(daily) \o daily_unit
    ELSE IF PositiveInt(monthly) THEN PyStr(monthly) \o monthly_unit
    ELSE ""

\* the period string of a (daily, monthly) pair: the monthly value
\* overwrites the daily one; "" stands for None
PeriodText(daily, daily_unit, monthly, monthly_unit) ==
    IF PositiveInt(monthly) THEN PyStr(monthly) \o monthly_unit
    ELSE IF PositiveInt(daily) THEN PyStr(daily) \o daily_unit
    ELSE ""

\* set_min_retention_lock_period_pool: retention_lock
MinRetentionLock ==
    PeriodText(config.minimum_retention_lock_period_daily_backup_in_days, "day",
               config.minimum_retention_lock_period_monthly_backup_in_days, "day")

\* set_max_retention_lock_period_pool: retention_lock
MaxRetentionLock ==
    PeriodText(config.maximum_retention_lock_period_daily_backup_in_days, "day",
               config.maximum_retention_lock_period_monthly_backup_in_years, "year")

\* set_retention_lock: retention_lock_period
retention_lock_period ==
    PeriodText(config.retention_lock_period_for_tapes_in_days, "day",
               config.retention_lock_period_for_tapes_for_monthly_in_years, "year")

\* the command of set_min_retention_lock_period_pool
SetMinCommand ==
    "mtree retention-lock set min-retention-period " \o MinRetentionLock
        \o " mtree  /data/col1/" \o config.pool_name

\* the command of set_max_retention_lock_period_pool
SetMaxCommand ==
    "mtree retention-lock set max-retention-period " \o MaxRetentionLock
        \o " mtree /data/col1/" \o config.pool_name

\* a condition that asks for eligible tapes only, whatever the governance state
GuardTapesOnly == Len(tape_list) > 0

\* the condition of set_min_..., set_max_... and apply_retention_lock_to_tapes
GovernanceGuard == Len(tape_list) > 0 /\ pool_retention_lock_enabled = TRUE

\* OpenSystem.set_min_retention_lock_period_pool
set_min_retention_lock_period_pool ==
    /\ lock_pc = "set_min_retention_lock_period_pool"
    /\ IF GovernanceGuard /\ MinRetentionLock # ""
       THEN \E result \in SetAnswers :
              lock_log' = Append(lock_log,
                  Ev("ssh", SetMinCommand, 0, result))
       ELSE UNCHANGED lock_log
    /\ lock_pc' = "set_max_retention_lock_period_pool"
    /\ UNCHANGED <<config, VTL_STATUS, pool_retention_lock_enabled, report,
                   tape_list, lock_idx, tape_list_result>>
    /\ UNCHANGED <<resetVars, fnVars>>

\* OpenSystem.set_max_retention_lock_period_pool
set_max_retention_lock_period_pool ==
    /\ lock_pc = "set_max_retention_lock_period_pool"
    /\ IF GovernanceGuard /\ MaxRetentionLock # ""
       THEN \E result \in SetAnswers :
              lock_log' = Append(lock_log,
                  Ev("ssh", SetMaxCommand, 0, result))
       ELSE UNCHANGED lock_log
    /\ lock_pc' = "apply_retention_lock_to_tapes"
    /\ UNCHANGED <<config, VTL_STATUS, pool_retention_lock_enabled, report,
                   tape_list, lock_idx, tape_list_result>>
    /\ UNCHANGED <<resetVars, fnVars>>

(***************************************************************************)
(* open_system_vtl_immutable.py: the lock transition of the tapes          *)
(***************************************************************************)
\* OpenSystem.format_tape_data: the loop over the lines from line i on; an
\* exception (a row with fewer than eight fields) ends the loop
RECURSIVE FormatScan(_, _, _)
FormatScan(lines, i, acc) ==
    IF lines = <<>> THEN acc
    ELSE LET line   == Split(Head(lines), "  ")
             hyphen == StartsWith(line[1], "--")
             tapes  == NonBlankStripped(line)
         IN  IF i > 3 /\ hyphen THEN acc
             ELSE IF i <= 3 THEN FormatScan(Tail(lines), i + 1, acc)
             ELSE IF Len(tapes) < 8 THEN acc
             ELSE FormatScan(Tail(lines), i + 1,
                      Append(acc, [barcode |-> tapes[1], pool_name |-> tapes[2],
                                   state |-> tapes[4], size |-> tapes[5],
                                   used |-> tapes[6],
                                   modification_time |-> tapes[8]]))

\* OpenSystem.format_tape_data; pool_data.split of False raises, and the
\* exception is caught
format_tape_data(pool_data) ==
    IF ~pool_data.ok THEN <<>>
    ELSE FormatScan(Split(pool_data.out, "\n"), 1, <<>>)

\* OpenSystem.apply_retention_lock_to_tapes: entry, and the else branch
apply_retention_lock_to_tapes ==
    /\ lock_pc = "apply_retention_lock_to_tapes"
    /\ IF GovernanceGuard
       THEN /\ tape_list_result' = <<>>
            /\ lock_idx' = 1
            /\ lock_pc' = "set_retention_lock"
            /\ UNCHANGED lock_log
       ELSE /\ lock_log' = Append(lock_log, EnableFailed)
            /\ lock_pc' = "end"
            /\ UNCHANGED <<tape_list_result, lock_idx>>
    /\ UNCHANGED <<config, VTL_STATUS, pool_retention_lock_enabled, report,
                   tape_list>>
    /\ UNCHANGED <<resetVars, fnVars>>

ModifyCommand(tape_info) ==
    "vtl tape modify " \o tape_info.barcode \o " pool " \o tape_info.pool_name
        \o " retention-lock " \o retention_lock_period

ShowCommand(tape_info) ==
    "vtl tape show pool " \o tape_info.pool_name \o " barcode "
        \o tape_info.barcode

\* set_retention_lock: updated_info[0] raises IndexError
SetLockRaises(updated_info) == updated_info = <<>>

\* set_retention_lock: the value returned for the re-queried records
set_retention_lock(updated_info) == updated_info[1].state = "RO/RL*"

\* apply_retention_lock_to_tapes: the loop leaves the tape at lock_idx
NextLockTape ==
    /\ lock_idx' = lock_idx + 1
    /\ lock_pc' = IF lock_idx < Len(tape_list) THEN "set_retention_lock"
                  ELSE "get_result"

\* apply_retention_lock_to_tapes: what the loop records for a tape, after
\* the commands of set_retention_lock were issued
Recorded(tape, result, issued) ==
    IF result = TRUE
    THEN /\ tape_list_result' = Append(tape_list_result, tape.barcode)
         /\ lock_log' = Append(issued,
                Msg("retention-lock successfully set for " \o tape.barcode
                    \o " in Pool: " \o tape.pool_name, lock_idx))
    ELSE /\ tape_list_result' = tape_list_result
         /\ lock_log' = Append(issued,
                Msg("retention-lock failed to set for " \o tape.barcode,
                    lock_idx))

\* one pass of the loop of apply_retention_lock_to_tapes, with
\* OpenSystem.set_retention_lock for the tape at lock_idx
SetRetentionLock ==
    /\ lock_pc = "set_retention_lock"
    /\ lock_idx \in 1..Len(tape_list)
    /\ LET tape == tape_list[lock_idx]
       IN  IF retention_lock_period # ""
           THEN \E data \in RequeryAnswers(tape) :
                  LET updated_info == format_tape_data(data)
                  IN  \E retention_set_result \in SetAnswers :
                        LET issued == lock_log
                                \o << Ev("ssh", ModifyCommand(tape), lock_idx,
                                         retention_set_result),
                                      Ev("ssh", ShowCommand(tape), lock_idx,
                                         data) >>
                        IN  IF SetLockRaises(updated_info)
                            THEN /\ lock_log' = issued
                                 /\ lock_pc' = "crashed"
                                 /\ UNCHANGED <<tape_list_result, lock_idx>>
                            ELSE /\ Recorded(tape,
                                        set_retention_lock(updated_info), issued)
                                 /\ NextLockTape
           ELSE /\ Recorded(tape, FALSE, lock_log)
                /\ NextLockTape
    /\ UNCHANGED <<config, VTL_STATUS, pool_retention_lock_enabled, report,
                   tape_list>>
    /\ UNCHANGED <<resetVars, fnVars>>

\* OpenSystem.get_result, called after the loop; the records it selects go
\* to the report file and to the log
get_result ==
    /\ lock_pc = "get_result"
    /\ \E pool_data \in {SshFalse, SshOut(ListingText(LockCatalogue))} :
         lock_log' = Append(lock_log,
             Ev("ssh", "vtl tape show pool " \o config.pool_name
                       \o " sort-by modtime descending", 0, Table(pool_data)))
    /\ lock_pc' = "end"
    /\ UNCHANGED <<config, VTL_STATUS, pool_retention_lock_enabled, report,
                   tape_list, lock_idx, tape_list_result>>
    /\ UNCHANGED <<resetVars, fnVars>>

\* __main__: the [END] banner
EndOfRun ==
    /\ lock_pc = "end"
    /\ lock_log' = Append(lock_log,
           Msg("------------[END] RetentionLock Tapes Immutable -----------------------", 0))
    /\ lock_pc' = "done"
    /\ UNCHANGED <<config, VTL_STATUS, pool_retention_lock_enabled, report,
                   tape_list, lock_idx, tape_list_result>>
    /\ UNCHANGED <<resetVars, fnVars>>

LockNext ==
    \/ check_vtl_state
    \/ get_pool_info
    \/ generate_filesys_report
    \/ get_tapes
    \/ NoTapes
    \/ enable_retention_lock_pool
    \/ set_min_retention_lock_period_pool
    \/ set_max_retention_lock_period_pool
    \/ apply_retention_lock_to_tapes
    \/ SetRetentionLock
    \/ get_result
    \/ EndOfRun

SpecLock == LockInit /\ [][LockNext]_vars

(***************************************************************************)
(* get_tapes of the lock workflow on one row of the listing: SpecSelect    *)
(***************************************************************************)
\* the rows the selection is studied on
SelectRows ==
    { LockTape("A00002L5", l, st, "5 GiB", u, mt) :
        l  \in {"Pool_TEST slot 2", "vault"},
        st \in {"RW", "RO/RL*"},
        u  \in {"0.0 GiB (0.00%)", "2.5 GiB (50.00%)"},
        mt \in {"2025/02/17 00:00:00", "2025/02/17 23:59:59",
                "2025/02/16 23:59:59", "2025/02/15 12:00:00",
                "2025/02/18 00:00:00"} }

Placement(name, sz) ==
    [file_name |-> name, size |-> sz,
     placement_time |-> "Mon Feb 17 09:00:00 2025"]

\* the placement reports (self.report) the selection is studied with
SelectReports ==
    { <<>>,
      <<Placement("/data/col1/FEB_3/A00002L5", "5 GiB")>>,
      <<Placement("/data/col1/FEB_3/A00002L5", "512 MiB")>>,
      <<Placement("/data/col1/FEB_3/A00002L5", "1024 MiB")>>,
      <<Placement("/data/col1/FEB_3/A00009L5", "5 GiB")>>,
      <<Placement("/data/col1/FEB_3/.snapshot/A00002L5", "512 MiB"),
        Placement("/data/col1/FEB_3/A00002L5", "5 GiB")>> }

\* the values of execution_logic_mechanism the selection is studied with
Mechanisms == {1, 2, 3}

SelectConfigs ==
    { [ pool_name |-> "FEB_3",
        retention_lock_period_for_tapes_in_days |-> PyInt(30),
        retention_lock_period_for_tapes_for_monthly_in_years |-> PyNone,
        minimum_retention_lock_period_daily_backup_in_days |-> PyNone,
        minimum_retention_lock_period_monthly_backup_in_days |-> PyNone,
        maximum_retention_lock_period_daily_backup_in_days |-> PyNone,
        maximum_retention_lock_period_monthly_backup_in_years |-> PyNone,
        mechanism |-> m,
        minimum_tape_usage |-> "1 GiB" ] : m \in Mechanisms }

\* the lock workflow stands before get_tapes, the listing holds one row
SelectInit ==
    /\ ResetIdle
    /\ lock_pc = "idle"
    /\ config \in SelectConfigs
    /\ VTL_STATUS = TRUE
    /\ pool_retention_lock_enabled = FALSE
    /\ report \in SelectReports
    /\ tape_list = <<>>
    /\ lock_idx = 0
    /\ tape_list_result = <<>>
    /\ lock_log = <<>>
    /\ fn_pc = "get_tapes"
    /\ fn_in \in SelectRows
    /\ fn_out = <<>>

\* the fields get_tapes reads from a row of the listing
RowInfo(row) == tape_info_of(NonBlankStripped(Split(LockRowText(row), "  ")))

\* get_tapes on a listing of the one row fn_in: the three locals of the
\* loop body, and the list it builds
SelectRow ==
    /\ fn_pc = "get_tapes"
    /\ fn_out' = [used |-> check_used(RowInfo(fn_in)),
                  state |-> check_state(RowInfo(fn_in)),
                  last_modified |->
                      check_modification_date(RowInfo(fn_in), config.mechanism),
                  tape_list |->
                      TapesScan(Split(ListingText(<<fn_in>>), "\n"), <<>>)]
    /\ fn_pc' = "selected"
    /\ UNCHANGED <<fn_in, resetVars, lockVars>>

SelectNext == SelectRow

SpecSelect == SelectInit /\ [][SelectNext]_vars

(***************************************************************************)
(* get_tapes_by_pool of the reset workflow on one record: SpecExpired      *)
(***************************************************************************)
\* the records the reclaim selection is studied on
ReclaimRows ==
    { Tape(b, "FEB_3", l, st, "5 GiB", rt) :
        b  \in {"A55157LA", "TEST01L5"},
        l  \in {"Pool_TEST slot 667", "vault"},
        st \in {"RO/RL*", "RO/RL", "RW"},
        rt \in {"n/a", "2025/02/16 19:45:48", "2025/02/17 11:59:59",
                "2025/02/17 12:00:00", "2026/01/01 00:00:00"} }

\* the reset workflow stands in the loop of get_tapes_by_pool, at one
\* record, the clock of the run showing NowText and micro microseconds
ExpiredInit ==
    /\ ResetIdle
    /\ LockIdle
    /\ fn_pc = "get_tapes_by_pool"
    /\ fn_in \in [row : ReclaimRows, micro : NowMicros]
    /\ fn_out = <<>>

\* the loop body of get_tapes_by_pool for the record fn_in.row: the list it
\* builds
SelectExpiredRow ==
    /\ fn_pc = "get_tapes_by_pool"
    /\ fn_out' = SelectExpired(<<fn_in.row>>, fn_in.micro)
    /\ fn_pc' = "reclaim_selected"
    /\ UNCHANGED <<fn_in, resetVars, lockVars>>

ExpiredNext == SelectExpiredRow

SpecExpired == ExpiredInit /\ [][ExpiredNext]_vars

(***************************************************************************)
(* The tape listing parsers of both workflows on one text: SpecParse       *)
(***************************************************************************)
\* longest body (lines between the three leading lines and the closing rule)
\* of the listings the parsers are studied on
MaxBodyLines == 3

\* what a body line can be
LineKinds == {"data", "blank", "heading", "separator", "short"}

\* the bodies: sequences of at most MaxBodyLines line kinds
Bodies == UNION { [1..n -> LineKinds] : n \in 0..MaxBodyLines }

ListingHeading ==
    "Barcode    Pool    Location           State   Size    Used (%)"
        \o "           Comp   Modification Time"

\* the data row of body line k in the listing of the lock workflow: a tape
\* in a slot, used, not locked, modified on the day of the run
LockDataRow(k) ==
    LockTape("A0000" \o NatToStr(k) \o "L5", "Pool_TEST slot " \o NatToStr(k),
             "RW", "5 GiB", "2.5 GiB (50.00%)", "2025/02/17 09:30:00")

\* the data row of body line k in the listing of the reset workflow: a
\* locked tape whose retention time has passed
ResetDataRow(k) ==
    Tape("A5500" \o NatToStr(k) \o "LA", "FEB_3",
         "Pool_TEST slot " \o NatToStr(k), "RO/RL*", "5 GiB",
         "2025/02/16 19:45:48")

\* one row of "vtl tape show pool ... time-display retention ..."
ResetRowText(t) ==
    t.barcode \o "   " \o t.pool_name \o "   " \o t.location \o "   "
        \o t.state \o "   " \o t.size \o "   0.0 GiB (0.00%)   0x   "
        \o t.retention_time

\* a row that lost its last three columns
ShortRow(k) == "A0000" \o NatToStr(k) \o "L5   FEB_3   Pool_TEST slot 1   RW   5 GiB"

\* the text of body line k of the given kind, with the given data row text
BodyLine(kind, k, data) ==
    CASE kind = "data"      -> data
      [] kind = "blank"     -> ""
      [] kind = "heading"   -> ListingHeading
      [] kind = "separator" -> ListingRule
      [] kind = "short"     -> ShortRow(k)

RECURSIVE LockBodyText(_, _)
LockBodyText(body, k) ==
    IF k > Len(body) THEN ""
    ELSE BodyLine(body[k], k, LockRowText(LockDataRow(k))) \o "\n"
             \o LockBodyText(body, k + 1)

RECURSIVE ResetBodyText(_, _)
ResetBodyText(body, k) ==
    IF k > Len(body) THEN ""
    ELSE BodyLine(body[k], k, ResetRowText(ResetDataRow(k))) \o "\n"
             \o ResetBodyText(body, k + 1)

\* the listing texts with the given body
LockListingText(body) ==
    "Processing tapes....\n" \o ListingHeading \o "\n" \o ListingRule \o "\n"
        \o LockBodyText(body, 1) \o ListingRule

ResetListingText(body) ==
    "Processing tapes....\n" \o ListingHeading \o "\n" \o ListingRule \o "\n"
        \o ResetBodyText(body, 1) \o ListingRule

\* get_tapes_by_pool: the loop over the lines of the listing from line i on;
\* an exception (a line with fewer than eight fields, a retention time that
\* strptime rejects) ends the loop
RECURSIVE ExpiredScan(_, _, _, _)
ExpiredScan(lines, i, acc, micro) ==
    IF lines = <<>> THEN acc
    ELSE LET line   == Split(Head(lines), "  ")
             hyphen == StartsWith(line[1], "--")
             tapes  == NonBlankStripped(line)
         IN  IF i > 3 /\ hyphen THEN acc
             ELSE IF i <= 3 THEN ExpiredScan(Tail(lines), i + 1, acc, micro)
             ELSE IF Len(tapes) < 8 THEN Caught(acc)
             ELSE LET tape_info == Tape(tapes[1], tapes[2], tapes[3], tapes[4],
                                        tapes[5], tapes[8])
                      dbg == IF tape_info.barcode = "TEST01L5"
                             THEN <<tape_info>> ELSE <<>>
                  IN  IF check_retention_date(tape_info, micro) = "raise"
                      THEN Caught(acc \o dbg)
                      ELSE ExpiredScan(Tail(lines), i + 1,
                               acc \o dbg
                                   \o (IF /\ check_state_reset(tape_info)
                                          /\ check_retention_date(tape_info, micro)
                                                 = "True"
                                       THEN <<tape_info>> ELSE <<>>),
                               micro)

\* either workflow stands before the parse of its listing
ParseInit ==
    /\ ResetIdle
    /\ lock_pc = "idle"
    /\ config \in { c \in SelectConfigs : c.mechanism = 1 }
    /\ VTL_STATUS = TRUE
    /\ pool_retention_lock_enabled = FALSE
    /\ report = <<>>
    /\ tape_list = <<>>
    /\ lock_idx = 0
    /\ tape_list_result = <<>>
    /\ lock_log = <<>>
    /\ fn_pc \in {"parse get_tapes", "parse get_tapes_by_pool"}
    /\ fn_in \in Bodies
    /\ fn_out = <<>>

\* OpenSystem.get_tapes on the listing with body fn_in
ParseLockListing ==
    /\ fn_pc = "parse get_tapes"
    /\ fn_out' = TapesScan(Split(LockListingText(fn_in), "\n"), <<>>)
    /\ fn_pc' = "parsed get_tapes"
    /\ UNCHANGED <<fn_in, resetVars, lockVars>>

\* OpenSystemVTLReset.get_tapes_by_pool on the listing with body fn_in
ParseResetListing ==
    /\ fn_pc = "parse get_tapes_by_pool"
    /\ \E micro \in NowMicros :
         fn_out' = ExpiredScan(Split(ResetListingText(fn_in), "\n"), 1, <<>>,
                               micro)
    /\ fn_pc' = "parsed get_tapes_by_pool"
    /\ UNCHANGED <<fn_in, resetVars, lockVars>>

ParseNext == ParseLockListing \/ ParseResetListing

SpecParse == ParseInit /\ [][ParseNext]_vars

(***************************************************************************)
(* The reset program's loop over the instances: the pools of each          *)
(* instance are looked up, then every pool found gets its batch            *)
(***************************************************************************)
MaxInstances == 2

\* self.pools, from the configuration document
pools == "FEB_3, MAR_1"

RECURSIVE StripAll(_)
StripAll(fields) ==
    IF fields = <<>> THEN <<>>
    ELSE <<Strip(Head(fields))>> \o StripAll(Tail(fields))

\* answers to "vtl pool show all"
PoolListingAnswers ==
    { SshFalse,
      SshOut(""),
      SshOut("Pool     Tapes\n------   -----\nFEB_3    12\n------   -----"),
      SshOut("Pool     Tapes\n------   -----\nFEB_3    12\nMAR_1    3\n"
                 \o "------   -----"),
      SshOut("Pool     Tapes\n------   -----\nDefault  40\n------   -----") }

\* the answers of the instances, in the order of open_system_instances
InstanceAnswers ==
    UNION { [1..n -> PoolListingAnswers] : n \in 1..MaxInstances }

PoolsInit ==
    /\ ResetIdle
    /\ LockIdle
    /\ fn_pc = "get_pools_present_on_VTL"
    /\ fn_in \in InstanceAnswers
    /\ fn_out = [instance |-> 1, doamin_specific_pools |-> <<>>,
                 batches |-> <<>>]

\* the loop over the lines of the listing: the first field of a line is
\* kept when it is one of the configured pools
RECURSIVE PoolScan(_, _, _)
PoolScan(lines, result, acc) ==
    IF lines = <<>> THEN acc
    ELSE LET line == Split(Head(lines), "  ")
         IN  PoolScan(Tail(lines), result,
                      IF \E k \in 1..Len(result) : result[k] = line[1]
                      THEN Append(acc, Strip(line[1]))
                      ELSE acc)

\* OpenSystemVTLReset.get_pools_present_on_VTL for self.pools being
\* configured: self.doamin_specific_pools after the call, before being its
\* value before the call ("if not pool_data" returns without assigning it)
PoolsPresent(pool_data, configured, before) ==
    IF ~Truthy(pool_data) THEN before
    ELSE PoolScan(Split(pool_data.out, "\n"),
                  StripAll(Split(configured, ",")), <<>>)

\* the same for the pools of the instance loop under study
doamin_specific_pools_after(pool_data, before) ==
    PoolsPresent(pool_data, pools, before)

\* __main__: set_instance and get_pools_present_on_VTL of one instance
PoolListing ==
    /\ UNCHANGED <<resetVars, lockVars>>
    /\ fn_pc = "get_pools_present_on_VTL"
    /\ fn_out' = [fn_out EXCEPT
                    !.doamin_specific_pools =
                        doamin_specific_pools_after(fn_in[fn_out.instance], @)]
    /\ fn_pc' = "check_vtl_state"
    /\ UNCHANGED fn_in

RECURSIVE BatchesOf(_, _)
BatchesOf(instance, names) ==
    IF names = <<>> THEN <<>>
    ELSE <<[instance |-> instance, pool |-> Strip(Head(names))]>>
             \o BatchesOf(instance, Tail(names))

\* __main__: check_vtl_state, then the batch (get_tapes_by_pool,
\* remove_retention_locked_tapes, check_result) of every pool of
\* doamin_specific_pools, then the next instance
PoolBatches ==
    /\ UNCHANGED <<resetVars, lockVars>>
    /\ fn_pc = "check_vtl_state"
    /\ fn_out' = [fn_out EXCEPT
                    !.batches = @ \o BatchesOf(fn_out.instance,
                                               fn_out.doamin_specific_pools),
                    !.instance = IF @ < Len(fn_in) THEN @ + 1 ELSE @]
    /\ fn_pc' = IF fn_out.instance < Len(fn_in)
                THEN "get_pools_present_on_VTL" ELSE "ended"
    /\ UNCHANGED fn_in

PoolsNext == PoolListing \/ PoolBatches

SpecPools == PoolsInit /\ [][PoolsNext]_vars

(***************************************************************************)
(* Start-up of the two programs: the configuration document, its          *)
(* validation, the credentials, and the run that follows                   *)
(***************************************************************************)
Workflows == {"lock", "reset"}

\* the keys load_input_params reads with data.get, per program (of the lock
\* program's six retention periods, which are all read the same way, one)
KeysOf(workflow) ==
    IF workflow = "lock"
    THEN {"open_system_instance", "open_system_credential_file_path",
          "pool_name", "minimum_tape_usage", "execution_logic_mechanism",
          "retention_lock_period_for_tapes_for_daily_in_days"}
    ELSE {"open_system_instances", "open_system_credential_file_path",
          "pool_names", "jukebox_name"}

\* the keys validate_input_parameters tests against None, in its order, each
\* with the parameter name of its log message
ValidatedKeys(workflow) ==
    IF workflow = "lock"
    THEN << <<"open_system_instance", "open_system_instance">>,
            <<"pool_name", "pool_name">>,
            <<"open_system_credential_file_path",
              "open_system_credential_file_path">>,
            <<"minimum_tape_usage", "minimum_tape_usage">>,
            <<"execution_logic_mechanism", "execution_logic_mechanism">> >>
    ELSE << <<"open_system_instances", "open_system_instance">>,
            <<"pool_names", "pool_name">>,
            <<"open_system_credential_file_path",
              "open_system_credential_file_path">> >>

\* the documents, each a mapping from the keys written in it to "given" (a
\* value) or "null": those that hold some of the keys the program reads
\* (none of them: an empty file, or "{}"), and the one that holds only a
\* key the program does not read
Documents(workflow) ==
    UNION { [K -> {"given", "null"}] : K \in SUBSET KeysOf(workflow) }
        \cup { [k \in {"some_other_key"} |-> "given"] }

\* the credential file the document names can be opened, or not
CredentialFiles == {"readable", "unreadable"}

\* the process: still running, or ended with an exit status
Running == "running"

ConfigInit ==
    /\ ResetIdle
    /\ LockIdle
    /\ fn_pc = "load_input_params"
    /\ fn_in \in UNION { { [workflow |-> w, data |-> d, cred |-> c] :
                             d \in Documents(w), c \in CredentialFiles } :
                         w \in Workflows }
    /\ fn_out = [status |-> Running, diagnostic |-> "", issued |-> <<>>,
                 doamin_specific_pools |-> <<>>]

\* "if data" fails: the document holds no key at all
DocumentEmpty(data) == DOMAIN data = {}

\* what load_input_params of the lock program assigns: the values of a
\* document in which every key that is given has the value of the runs
\* under study, a string or a period being None when data.get gives None
ConfigOf(data) ==
    [ pool_name |-> IF Get(data, "pool_name") = "given" THEN "FEB_3"
                    ELSE "None",
      retention_lock_period_for_tapes_in_days |->
          IF Get(data, "retention_lock_period_for_tapes_for_daily_in_days")
                 = "given"
          THEN PyInt(30) ELSE PyNone,
      retention_lock_period_for_tapes_for_monthly_in_years |-> PyNone,
      minimum_retention_lock_period_daily_backup_in_days |-> PyNone,
      minimum_retention_lock_period_monthly_backup_in_days |-> PyNone,
      maximum_retention_lock_period_daily_backup_in_days |-> PyNone,
      maximum_retention_lock_period_monthly_backup_in_years |-> PyNone,
      mechanism |-> IF Get(data, "execution_logic_mechanism") = "given"
                    THEN 1 ELSE 0,
      minimum_tape_usage |-> IF Get(data, "minimum_tape_usage") = "given"
                             THEN "1 GiB" ELSE "None" ]

\* load_input_params of either program: "Failed to load parameters." is
\* printed, not logged, and the process exits with status 1; otherwise the
\* values are assigned
load_input_params ==
    /\ fn_pc = "load_input_params"
    /\ IF DocumentEmpty(fn_in.data)
       THEN /\ fn_out' = [fn_out EXCEPT !.status = 1]
            /\ fn_pc' = "exited"
            /\ UNCHANGED config
       ELSE /\ fn_out' = fn_out
            /\ fn_pc' = "validate_input_parameters"
            /\ config' = IF fn_in.workflow = "lock" THEN ConfigOf(fn_in.data)
                         ELSE config
    /\ UNCHANGED <<lock_pc, VTL_STATUS, pool_retention_lock_enabled, report,
                   tape_list, lock_idx, tape_list_result, lock_log>>
    /\ UNCHANGED <<fn_in, resetVars>>

\* the positions of ValidatedKeys whose value is None
MissingAt(workflow, data) ==
    { i \in 1..Len(ValidatedKeys(workflow)) :
        Get(data, ValidatedKeys(workflow)[i][1]) = "None" }

\* validate_input_parameters: the tests that fail
FailedTests(workflow, data) == MissingAt(workflow, data)

\* validate_input_parameters of either program: the first test that fails
\* logs its message and calls sys.exit(1)
validate_input_parameters ==
    /\ UNCHANGED <<resetVars, lockVars>>
    /\ fn_pc = "validate_input_parameters"
    /\ LET failed == FailedTests(fn_in.workflow, fn_in.data) IN
         IF failed # {}
         THEN /\ fn_out' =
                   [fn_out EXCEPT
                      !.status = 1,
                      !.diagnostic =
                          "'" \o ValidatedKeys(fn_in.workflow)[Least(failed)][2]
                              \o "' parameter" ]
              /\ fn_pc' = "exited"
         ELSE /\ fn_out' = fn_out
              /\ fn_pc' = "decrypt_credentials"
    /\ UNCHANGED fn_in

\* utils.decrypt_credentials: "open(filepath)" is in no try, the exception
\* of a file that cannot be opened ends the process (exit status 1); after
\* it __main__ of the lock program calls check_vtl_state, that of the reset
\* program get_pools_present_on_VTL for its instance
decrypt_credentials ==
    /\ fn_pc = "decrypt_credentials"
    /\ IF fn_in.cred = "unreadable"
       THEN /\ fn_out' = [fn_out EXCEPT !.status = 1]
            /\ fn_pc' = "raised"
            /\ UNCHANGED lock_pc
       ELSE /\ fn_out' = fn_out
            /\ fn_pc' = IF fn_in.workflow = "lock" THEN "started"
                        ELSE "get_pools_present_on_VTL"
            /\ lock_pc' = IF fn_in.workflow = "lock" THEN "check_vtl_state"
                          ELSE lock_pc
    /\ UNCHANGED <<config, VTL_STATUS, pool_retention_lock_enabled, report,
                   tape_list, lock_idx, tape_list_result, lock_log>>
    /\ UNCHANGED <<fn_in, resetVars>>

\* OpenSystemVTLReset.get_pools_present_on_VTL of the instance, for the
\* pool_names of the document
FirstPoolListing ==
    /\ UNCHANGED <<resetVars, lockVars>>
    /\ fn_pc = "get_pools_present_on_VTL"
    /\ \E pool_data \in PoolListingAnswers :
         fn_out' = [fn_out EXCEPT
                      !.issued = Append(@, "vtl pool show all"),
                      !.doamin_specific_pools =
                          PoolsPresent(pool_data, "FEB_3", @)]
    /\ fn_pc' = "check_vtl_state"
    /\ UNCHANGED fn_in

\* OpenSystemVTLReset.check_vtl_state, whose result nothing reads, and the
\* "if len(open_system_pool_names)" of __main__: set_pool and the batch of
\* the pool found, or the end of the run
StartCheckVtlState ==
    /\ UNCHANGED lockVars
    /\ fn_pc = "check_vtl_state"
    /\ IF Len(fn_out.doamin_specific_pools) > 0
       THEN /\ fn_out' = [fn_out EXCEPT !.issued = Append(@, "vtl status")]
            /\ fn_pc' = "started"
            /\ pc' = "get_tapes"
            /\ pool' = Strip(fn_out.doamin_specific_pools[1])
       ELSE /\ fn_out' = [fn_out EXCEPT !.issued = Append(@, "vtl status"),
                                        !.status = 0]
            /\ fn_pc' = "ended"
            /\ UNCHANGED <<pc, pool>>
    /\ UNCHANGED <<retention_locked_tape_list, created_tapes, idx, buckets,
                   log>>
    /\ UNCHANGED fn_in

\* the interpreter ends the process: with status 0 at the end of __main__,
\* with status 1 on an exception that nothing catches
ProcessEnds ==
    /\ UNCHANGED <<resetVars, lockVars>>
    /\ fn_pc = "started"
    /\ \/ pc \in {"done", "crashed"}
       \/ lock_pc \in {"done", "crashed"}
    /\ IF pc = "crashed" \/ lock_pc = "crashed"
       THEN /\ fn_out' = [fn_out EXCEPT !.status = 1]
            /\ fn_pc' = "raised"
       ELSE /\ fn_out' = [fn_out EXCEPT !.status = 0]
            /\ fn_pc' = "ended"
    /\ UNCHANGED fn_in

\* start-up, then the run of the program: the batch of the pool in the
\* reset program, the lock run in the lock program
ConfigNext ==
    \/ load_input_params
    \/ validate_input_parameters
    \/ decrypt_credentials
    \/ FirstPoolListing
    \/ StartCheckVtlState
    \/ ResetNext
    \/ LockNext
    \/ ProcessEnds

SpecConfig == ConfigInit /\ [][ConfigNext]_vars

(***************************************************************************)
(* The reset program's result report: the success list the batches leave   *)
(* in self.created_tapes, the final listing, and what goes to the report   *)
(***************************************************************************)
MaxBatches == 2

\* the barcodes a batch may select
BatchBarcodes == <<"A55157LA", "A55200LA">>

RECURSIVE PickBarcodes(_, _)
PickBarcodes(S, from) ==
    IF from > Len(BatchBarcodes) THEN <<>>
    ELSE (IF BatchBarcodes[from] \in S THEN <<BatchBarcodes[from]>> ELSE <<>>)
             \o PickBarcodes(S, from + 1)

\* the row of a tape in "vtl tape show pool FEB_3 sort-by modtime
\* descending" after it has been created again
FinalRow(barcode) ==
    LockTape(barcode, "Pool_TEST slot 667", "RW", "5 GiB", "0.0 GiB (0.00%)",
             "2025/02/17 12:10:00")

\* answers to the final listing: failure, both tapes, the second tape only
FinalListings ==
    { SshFalse,
      SshOut(ListingText(<<FinalRow("A55157LA"), FinalRow("A55200LA")>>)),
      SshOut(ListingText(<<FinalRow("A55200LA")>>)) }

\* one batch (a pool of an instance): the tapes get_tapes_by_pool selected,
\* those of them that passed every stage, and the answer to the final
\* listing
BatchInputs ==
    { [selected |-> PickBarcodes(S, 1), succeeded |-> PickBarcodes(T, 1),
       final |-> f] :
        S \in SUBSET {"A55157LA", "A55200LA"},
        T \in SUBSET {"A55157LA", "A55200LA"},
        f \in FinalListings }

ResultInputs ==
    UNION { { bs \in [1..n -> BatchInputs] :
                \A i \in 1..n : \A k \in 1..Len(bs[i].succeeded) :
                    \E j \in 1..Len(bs[i].selected) :
                        bs[i].selected[j] = bs[i].succeeded[k] } :
            n \in 1..MaxBatches }

ResultInit ==
    /\ ResetIdle
    /\ LockIdle
    /\ fn_pc = "remove_retention_locked_tapes"
    /\ fn_in \in ResultInputs
    /\ fn_out = [batch |-> 1, created_tapes |-> <<>>, reports |-> <<>>,
                 queries |-> <<>>]

\* remove_retention_locked_tapes: self.created_tapes after the batch, before
\* being its value before ("self.created_tapes = created_tapes" is inside
\* "if len(self.retention_locked_tape_list) > 0")
created_tapes_after(batch, before) ==
    IF Len(batch.selected) > 0 THEN batch.succeeded ELSE before

\* __main__: get_tapes_by_pool and remove_retention_locked_tapes of one pool
RemoveBatch ==
    /\ UNCHANGED <<resetVars, lockVars>>
    /\ fn_pc = "remove_retention_locked_tapes"
    /\ fn_out' = [fn_out EXCEPT
                    !.created_tapes =
                        created_tapes_after(fn_in[fn_out.batch], @)]
    /\ fn_pc' = "check_result"
    /\ UNCHANGED fn_in

\* OpenSystemVTLReset.get_result: the loop over the lines of the final
\* listing; a row of the success list with fewer than 8 columns raises
\* IndexError, which ends the loop
RECURSIVE ResultScan(_, _, _)
ResultScan(lines, barcodes_wanted, acc) ==
    IF lines = <<>> THEN acc
    ELSE LET line  == Split(Head(lines), "  ")
             tapes == NonBlankStripped(line)
         IN  IF \/ SkippedLine(line)
                \/ \E i \in 1..Len(line) : StrContains(line[i], "-")
             THEN ResultScan(Tail(lines), barcodes_wanted, acc)
             ELSE IF Len(tapes) > 0
                       /\ \E k \in 1..Len(barcodes_wanted) :
                              barcodes_wanted[k] = Strip(tapes[1])
                  THEN IF Len(tapes) < 8 THEN acc
                       ELSE ResultScan(Tail(lines), barcodes_wanted,
                                Append(acc, tape_info_of(tapes)))
                  ELSE ResultScan(Tail(lines), barcodes_wanted, acc)

\* check_result and get_result: the reports after the call
reports_after(batch, barcodes_wanted, final, reports) ==
    IF Len(barcodes_wanted) > 0 /\ Truthy(final)
    THEN Append(reports,
             [batch |-> batch,
              tape_list |-> ResultScan(Split(final.out, "\n"),
                                       barcodes_wanted, <<>>)])
    ELSE reports

\* check_result: the result queries after the call; get_result is called,
\* and issues its listing command, when self.created_tapes is not empty
queries_after(batch, barcodes_wanted, queries) ==
    IF Len(barcodes_wanted) > 0
    THEN Append(queries, [batch |-> batch, barcodes |-> barcodes_wanted])
    ELSE queries

\* __main__: check_result of one pool, then the next pool
CheckResult ==
    /\ UNCHANGED <<resetVars, lockVars>>
    /\ fn_pc = "check_result"
    /\ fn_out' = [fn_out EXCEPT
                    !.reports = reports_after(fn_out.batch,
                                    fn_out.created_tapes,
                                    fn_in[fn_out.batch].final, @),
                    !.queries = queries_after(fn_out.batch,
                                    fn_out.created_tapes, @),
                    !.batch = IF @ < Len(fn_in) THEN @ + 1 ELSE @]
    /\ fn_pc' = IF fn_out.batch < Len(fn_in)
                THEN "remove_retention_locked_tapes" ELSE "ended"
    /\ UNCHANGED fn_in

ResultNext == RemoveBatch \/ CheckResult

SpecResult == ResultInit /\ [][ResultNext]_vars

(***************************************************************************)
(* The retention periods: the period strings and set commands the lock     *)
(* program computes from the values of the configuration document          *)
(***************************************************************************)
\* values a period key of the document may hold
PeriodValues ==
    { PyNone, PyInt(0 - 1), PyInt(0), PyInt(2), PyInt(30), PyBool(TRUE),
      PyText(30) }

\* the documents: the same (daily, monthly) pair for the tape periods and
\* for the two bounds of the mtree
PeriodConfigs ==
    { [ pool_name |-> "FEB_3",
        retention_lock_period_for_tapes_in_days |-> daily,
        retention_lock_period_for_tapes_for_monthly_in_years |-> monthly,
        minimum_retention_lock_period_daily_backup_in_days |-> daily,
        minimum_retention_lock_period_monthly_backup_in_days |-> monthly,
        maximum_retention_lock_period_daily_backup_in_days |-> daily,
        maximum_retention_lock_period_monthly_backup_in_years |-> monthly,
        mechanism |-> 1,
        minimum_tape_usage |-> "1 GiB" ] :
      daily \in PeriodValues, monthly \in PeriodValues }

\* the lock program stands before one of the three functions, with one
\* eligible tape
PeriodInit ==
    /\ ResetIdle
    /\ lock_pc = "idle"
    /\ config \in PeriodConfigs
    /\ VTL_STATUS = TRUE
    /\ pool_retention_lock_enabled \in BOOLEAN
    /\ report = <<>>
    /\ tape_list = <<RowInfo(LockCatalogue[1])>>
    /\ lock_idx = 1
    /\ tape_list_result = <<>>
    /\ lock_log = <<>>
    /\ fn_pc \in {"set_min_retention_lock_period_pool",
                  "set_max_retention_lock_period_pool", "set_retention_lock"}
    /\ fn_in = <<>>
    /\ fn_out = <<>>

\* set_min_retention_lock_period_pool: the commands it issues
SetMinPeriod ==
    /\ UNCHANGED <<resetVars, lockVars>>
    /\ fn_pc = "set_min_retention_lock_period_pool"
    /\ fn_out' = IF GovernanceGuard /\ MinRetentionLock # ""
                 THEN <<SetMinCommand>> ELSE <<>>
    /\ fn_pc' = "min set"
    /\ UNCHANGED fn_in

\* set_max_retention_lock_period_pool: the commands it issues
SetMaxPeriod ==
    /\ UNCHANGED <<resetVars, lockVars>>
    /\ fn_pc = "set_max_retention_lock_period_pool"
    /\ fn_out' = IF GovernanceGuard /\ MaxRetentionLock # ""
                 THEN <<SetMaxCommand>> ELSE <<>>
    /\ fn_pc' = "max set"
    /\ UNCHANGED fn_in

\* set_retention_lock: the modify command it issues for the tape
SetTapePeriod ==
    /\ UNCHANGED <<resetVars, lockVars>>
    /\ fn_pc = "set_retention_lock"
    /\ fn_out' = IF retention_lock_period # ""
                 THEN <<ModifyCommand(tape_list[lock_idx])>> ELSE <<>>
    /\ fn_pc' = "tape period set"
    /\ UNCHANGED fn_in

PeriodNext == SetMinPeriod \/ SetMaxPeriod \/ SetTapePeriod

SpecPeriod == PeriodInit /\ [][PeriodNext]_vars

(***************************************************************************)
(* The order of the calls of the reset program: every remote command and   *)
(* every pause is a blocking call, issued and then awaited                 *)
(***************************************************************************)
MaxSeqTapes == 2

\* the waits of a run: time.sleep in run_nsrmm_command, in
\* remove_retention_locked_tapes and in run_nsrjb_command, and
\* process.communicate(), which waits for the nsrmm started before
Waits ==
    { "sleep 50", "communicate", "sleep 60 after nsrmm",
      "sleep 60 after import", "sleep 60 in run_nsrjb_command" }

\* the calls whose result decides whether the tape goes on to the next stage
GatingSteps == {"vtl export", "vtl tape del", "vtl tape add", "vtl import"}

\* the remote commands sent by execute_ssh_command
SshSteps ==
    GatingSteps \cup {"vtl pool show all", "vtl status", "vtl tape show pool",
                      "vtl tape show pool (result)"}

\* what a tape of the eligible list is like: in a library slot with a size
\* int() converts ('5 GiB'), in the vault (export_tape_from_library issues
\* no command and returns None), or in a slot with a size int() does not
\* convert ('2.5 GiB')
TapeKinds == {"slot", "vault", "unsized"}

\* the eligible lists of at most MaxSeqTapes tapes
SeqTapes == UNION { [1..n -> TapeKinds] : n \in 0..MaxSeqTapes }

\* a run: the number of instances, the number of configured pools a pool
\* listing that came back shows, the expired tapes a tape listing that came
\* back shows, and the jukebox_name of the document (None when the key is
\* not there)
SeqRuns ==
    [instances : 1..MaxInstances, pools : 0..2, tapes : SeqTapes,
     jukebox_name : {"given", "None"}]

\* a call: where in the run it is made
Call(i, p, t, step) == [instance |-> i, pool |-> p, tape |-> t, step |-> step]

\* the state after OpenSystemVTLReset.__init__: created_tapes and
\* doamin_specific_pools are empty, VTL_STATUS is False; vtl_status is the
\* test of the last answer to 'vtl status' (line 131), created the list
\* created_tapes local to remove_retention_locked_tapes (is it non-empty)
SeqInit ==
    /\ ResetIdle
    /\ LockIdle
    /\ fn_pc = "call"
    /\ fn_in \in SeqRuns
    /\ fn_out = [at |-> Call(1, 0, 0, "vtl pool show all"), outstanding |-> {},
                 created |-> FALSE, created_tapes |-> FALSE,
                 doamin_specific_pools |-> 0,
                 VTL_STATUS |-> FALSE, vtl_status |-> FALSE]

\* the call after the last call of tape t of pool p of instance i
AfterTape(i, p, t, run) ==
    IF t < Len(run.tapes) THEN Call(i, p, t + 1, "nsrmm -d")
    ELSE Call(i, p, 0, "vtl tape show pool (result)")

\* the call after check_result of pool p of instance i, "end" after the
\* last one; found is the length of the list __main__ read from
\* doamin_specific_pools after the pool listing of the instance
AfterPool(i, p, found, run) ==
    IF p < found THEN Call(i, p + 1, 0, "vtl tape show pool")
    ELSE IF i < run.instances THEN Call(i + 1, 0, 0, "vtl pool show all")
    ELSE Call(i, p, 0, "end")

\* what a call can give its caller. execute_ssh_command gives the output or
\* False ("failed"; for the three listings "ok" is an output that is not
\* empty, for 'vtl status' one that holds enabled, running and licensed) and
\* raises nothing; a pause returns; Popen starts nsrmm or raises, the write
\* to its stdin passes or raises, communicate returns or raises after the
\* process ended (the decoding of its output), and none of these is caught;
\* subprocess.run returns, or raises CalledProcessError ("failed", caught by
\* run_nsrjb_command) or another exception (not caught)
Outcomes(step) ==
    IF step \in SshSteps THEN {"ok", "failed"}
    ELSE IF step \in {"nsrmm -d", "stdin.write", "communicate"}
    THEN {"ok", "raised"}
    ELSE IF step = "nsrjb -L" THEN {"ok", "failed", "raised"}
    ELSE {"ok"}

\* the call that follows a call that gave outcome; the step "raised" is an
\* exception leaving the process: out of run_nsrmm_command and
\* run_nsrjb_command, out of create_tape (int() of the size, before 'vtl
\* tape add' is sent) and out of ' '.join(command) with jukebox_name None
\* (before nsrjb is started)
FollowingCall(at, outcome, found, run) ==
    LET i  == at.instance
        p  == at.pool
        t  == at.tape
        ok == outcome = "ok"
    IN  IF outcome = "raised" THEN Call(i, p, t, "raised")
        ELSE
        CASE at.step = "vtl pool show all" -> Call(i, 0, 0, "vtl status")
          [] at.step = "vtl status" -> AfterPool(i, 0, found, run)
          [] at.step = "vtl tape show pool" ->
                 IF ok /\ Len(run.tapes) > 0 THEN Call(i, p, 1, "nsrmm -d")
                 ELSE Call(i, p, 0, "vtl tape show pool (result)")
          [] at.step = "nsrmm -d" -> Call(i, p, t, "sleep 50")
          [] at.step = "sleep 50" -> Call(i, p, t, "stdin.write")
          [] at.step = "stdin.write" -> Call(i, p, t, "communicate")
          [] at.step = "communicate" -> Call(i, p, t, "sleep 60 after nsrmm")
          [] at.step = "sleep 60 after nsrmm" ->
                 IF run.tapes[t] = "vault" THEN AfterTape(i, p, t, run)
                 ELSE Call(i, p, t, "vtl export")
          [] at.step = "vtl export" ->
                 IF ok THEN Call(i, p, t, "vtl tape del")
                 ELSE AfterTape(i, p, t, run)
          [] at.step = "vtl tape del" ->
                 IF ~ok THEN AfterTape(i, p, t, run)
                 ELSE IF run.tapes[t] = "unsized" THEN Call(i, p, t, "raised")
                 ELSE Call(i, p, t, "vtl tape add")
          [] at.step = "vtl tape add" ->
                 IF ok THEN Call(i, p, t, "vtl import")
                 ELSE AfterTape(i, p, t, run)
          [] at.step = "vtl import" ->
                 IF ok THEN Call(i, p, t, "sleep 60 after import")
                 ELSE AfterTape(i, p, t, run)
          [] at.step = "sleep 60 after import" ->
                 IF run.jukebox_name = "None" THEN Call(i, p, t, "raised")
                 ELSE Call(i, p, t, "nsrjb -L")
          [] at.step = "nsrjb -L" ->
                 IF ok THEN Call(i, p, t, "sleep 60 in run_nsrjb_command")
                 ELSE AfterTape(i, p, t, run)
          [] at.step = "sleep 60 in run_nsrjb_command" ->
                 AfterTape(i, p, t, run)
          [] OTHER -> AfterPool(i, p, found, run)

\* get_pools_present_on_VTL: a listing that came back assigns
\* doamin_specific_pools, a failed or empty one returns before the
\* assignment
PoolsAfter(at, outcome, found, run) ==
    IF at.step = "vtl pool show all" /\ outcome = "ok" THEN run.pools
    ELSE found

\* the list created_tapes of remove_retention_locked_tapes is not empty: it
\* starts empty, and the barcode is appended when run_nsrjb_command has
\* returned, with True (after its pause) or with False
CreatedAfter(at, outcome, created) ==
    IF at.step = "vtl tape show pool" THEN FALSE
    ELSE IF at.step = "nsrjb -L" /\ outcome = "failed" THEN TRUE
    ELSE IF at.step = "sleep 60 in run_nsrjb_command" THEN TRUE
    ELSE created

\* self.created_tapes is not empty: assigned from the local list when the
\* loop of a batch with tapes is over (line 352), else left as it was
TapesAfter(at, following, created, before) ==
    IF at.tape > 0 /\ following.step = "vtl tape show pool (result)"
    THEN created
    ELSE before

\* check_result issues its listing only when self.created_tapes is not
\* empty; otherwise the run goes straight on
SkipResult(at, nonempty, found, run) ==
    IF at.step = "vtl tape show pool (result)" /\ ~nonempty
    THEN AfterPool(at.instance, at.pool, found, run)
    ELSE at

\* a call that is started and never awaited
LeftRunning(outstanding, call) == outstanding

\* stdout.read(), subprocess.run and time.sleep return when the command or
\* the pause is over; process.communicate() returns when the nsrmm process
\* started by Popen is over
Awaited(outstanding, call) ==
    IF call.step = "communicate"
    THEN outstanding \ {call, [call EXCEPT !.step = "nsrmm -d"]}
    ELSE outstanding \ {call}

\* a call is started: ssh.exec_command, subprocess.run, time.sleep and
\* process.communicate block until ReturnCall. subprocess.Popen starts
\* nsrmm and returns at once, or raises without starting it; the write to
\* the stdin of nsrmm is over at once, and when it raises the process is
\* left with nsrmm started and not awaited
IssueCall ==
    /\ UNCHANGED <<resetVars, lockVars>>
    /\ fn_pc = "call"
    /\ IF fn_out.at.step \in {"nsrmm -d", "stdin.write"}
       THEN \E outcome \in Outcomes(fn_out.at.step) :
              /\ fn_out' =
                     [fn_out EXCEPT
                        !.at = FollowingCall(fn_out.at, outcome,
                                   fn_out.doamin_specific_pools, fn_in),
                        !.outstanding =
                            IF fn_out.at.step = "nsrmm -d" /\ outcome = "ok"
                            THEN @ \cup {fn_out.at} ELSE @]
              /\ fn_pc' = IF outcome = "ok" THEN "call" ELSE "raised"
       ELSE /\ fn_out' = [fn_out EXCEPT !.outstanding = @ \cup {fn_out.at}]
            /\ fn_pc' = "wait"
    /\ UNCHANGED fn_in

\* check_vtl_state: VTL_STATUS is set to True by an answer that holds
\* enabled, running and licensed, and never set back to False
HealthyAfter(at, outcome, healthy) ==
    IF at.step = "vtl status" /\ outcome = "ok" THEN TRUE ELSE healthy

\* check_vtl_state: the test of the answer to the last 'vtl status'
StatusAfter(at, outcome, vtl_status) ==
    IF at.step = "vtl status" THEN outcome = "ok" ELSE vtl_status

\* the call returns: its result has been read, the attributes the caller
\* assigns next are assigned, and the run stands before its next call
ReturnCall ==
    /\ UNCHANGED <<resetVars, lockVars>>
    /\ fn_pc = "wait"
    /\ \E outcome \in Outcomes(fn_out.at.step) :
         LET found     == PoolsAfter(fn_out.at, outcome,
                                     fn_out.doamin_specific_pools, fn_in)
             created   == CreatedAfter(fn_out.at, outcome, fn_out.created)
             following == FollowingCall(fn_out.at, outcome, found, fn_in)
             tapes     == TapesAfter(fn_out.at, following, created,
                                     fn_out.created_tapes)
             next      == SkipResult(following, tapes, found, fn_in)
         IN  /\ fn_out' = [at |-> next,
                           outstanding |->
                               Awaited(fn_out.outstanding, fn_out.at),
                           created |-> created,
                           created_tapes |-> tapes,
                           doamin_specific_pools |-> found,
                           VTL_STATUS |-> HealthyAfter(fn_out.at, outcome,
                                                       fn_out.VTL_STATUS),
                           vtl_status |-> StatusAfter(fn_out.at, outcome,
                                                      fn_out.vtl_status)]
             /\ fn_pc' = CASE next.step = "end" -> "ended"
                            [] next.step = "raised" -> "raised"
                            [] OTHER -> "call"
    /\ UNCHANGED fn_in

SeqNext == IssueCall \/ ReturnCall

SpecSeq == SeqInit /\ [][SeqNext]_vars

(***************************************************************************)
(* check_pool_retention_lock_governance_mode on its own (SpecGovernance)   *)
(***************************************************************************)
\* longest body (lines after the two heading lines) of a status text
MaxStatusLines == 3

\* the lines a status text is made of: option rows, the rule that closes
\* the table, a blank line and a line with a single field
StatusLines ==
    { "Retention-lock    enabled", "Retention-lock    disabled",
      "Retention-lock mode   governance", "Retention-lock mode   compliance",
      "------  -----", "", "Mtree: /data/col1/FEB_3" }

StatusHeading == <<"Option  Value", "------  -----">>

RECURSIVE JoinStatus(_)
JoinStatus(lines) ==
    IF lines = <<>> THEN ""
    ELSE IF Len(lines) = 1 THEN lines[1]
    ELSE lines[1] \o "\n" \o JoinStatus(Tail(lines))

\* the bodies of at most MaxStatusLines lines
StatusBodies ==
    UNION { [1..n -> StatusLines] : n \in 0..MaxStatusLines }

\* what execute_ssh_command may hand to the query: False, a status table
\* under its two heading lines, or the same lines without the heading
StatusAnswers ==
    {SshFalse}
    \cup { SshOut(JoinStatus(StatusHeading \o body)) : body \in StatusBodies }
    \cup { SshOut(JoinStatus(body)) : body \in StatusBodies }

GovernanceInit ==
    /\ ResetIdle
    /\ LockIdle
    /\ fn_pc = "check_pool_retention_lock_governance_mode"
    /\ fn_in \in StatusAnswers
    /\ fn_out = <<>>

\* check_pool_retention_lock_governance_mode: the value it leaves in
\* self.pool_retention_lock_enabled
GovernanceQuery ==
    /\ UNCHANGED <<resetVars, lockVars>>
    /\ fn_pc = "check_pool_retention_lock_governance_mode"
    /\ fn_out' = <<GovernanceEnabled(fn_in)>>
    /\ fn_pc' = "queried"
    /\ UNCHANGED fn_in

GovernanceNext == GovernanceQuery

SpecGovernance == GovernanceInit /\ [][GovernanceNext]_vars

(***************************************************************************)
(* The three report parsers and their exception handler (SpecFailSoft)     *)
(***************************************************************************)
Parsers == {"get_tapes_by_pool", "get_tapes", "generate_filesys_report"}

\* what a body line can be: the kinds of SpecParse, and a row whose last
\* column is no timestamp
FailSoftKinds == LineKinds \cup {"undated"}

FailSoftBodies == UNION { [1..n -> FailSoftKinds] : n \in 0..MaxBodyLines }

\* body line k of the tape listings
ListingLine(parser, kind, k) ==
    LET row == IF parser = "get_tapes" THEN LockRowText(LockDataRow(k))
               ELSE ResetRowText(ResetDataRow(k))
    IN  IF kind = "undated"
        THEN "A9999" \o NatToStr(k) \o "L5   FEB_3   Pool_TEST slot 9   RW"
                 \o "   5 GiB   2.5 GiB (50.00%)   8x   yesterday"
        ELSE BodyLine(kind, k, row)

\* body line k of the placement report
ReportLine(kind, k) ==
    CASE kind = "data" ->
             "/data/col1/FEB_3/A0000" \o NatToStr(k)
                 \o "L5\tActive\t5 GiB\tMon Feb 17 09:00:00 2025"
      [] kind = "blank" -> ""
      [] kind = "heading" -> "File Name\tLocation Unit\tSize\tPlacement Time"
      [] kind = "separator" ->
             "---------\t-------------\t----\t--------------"
      [] kind = "short" -> "/data/col1/FEB_3/A0000" \o NatToStr(k) \o "L5\tActive"
      [] kind = "undated" ->
             "/data/col1/FEB_3/A9999" \o NatToStr(k) \o "L5\tActive\t5 GiB\tyesterday"

RECURSIVE FailSoftLines(_, _, _)
FailSoftLines(parser, body, k) ==
    IF k > Len(body) THEN <<>>
    ELSE << IF parser = "generate_filesys_report" THEN ReportLine(body[k], k)
            ELSE ListingLine(parser, body[k], k) >>
             \o FailSoftLines(parser, body, k + 1)

\* the lines of the text handed to the parser: three leading lines, the
\* body and the closing rule
FailSoftText(parser, body) ==
    IF parser = "generate_filesys_report"
    THEN << "File Distribution", ReportLine("heading", 0),
            ReportLine("separator", 0) >>
             \o FailSoftLines(parser, body, 1) \o <<ReportLine("separator", 0)>>
    ELSE << "Processing tapes....", ListingHeading, ListingRule >>
             \o FailSoftLines(parser, body, 1) \o <<ListingRule>>

FailSoftInit ==
    /\ ResetIdle
    /\ lock_pc = "idle"
    /\ config \in { c \in SelectConfigs : c.mechanism = 1 }
    /\ VTL_STATUS = TRUE
    /\ pool_retention_lock_enabled = FALSE
    /\ report = <<>>
    /\ tape_list = <<>>
    /\ lock_idx = 0
    /\ tape_list_result = <<>>
    /\ lock_log = <<>>
    /\ fn_pc = "parse"
    /\ fn_in \in [parser : Parsers, body : FailSoftBodies]
    /\ fn_out = <<>>

\* OpenSystemVTLReset.get_tapes_by_pool: self.retention_locked_tape_list
ParseExpired ==
    /\ fn_pc = "parse"
    /\ fn_in.parser = "get_tapes_by_pool"
    /\ \E micro \in NowMicros :
         fn_out' = ExpiredScan(FailSoftText(fn_in.parser, fn_in.body), 1, <<>>,
                               micro)
    /\ fn_pc' = "parsed"
    /\ UNCHANGED <<fn_in, resetVars, lockVars>>

\* OpenSystem.get_tapes: self.tape_list
ParseTapes ==
    /\ fn_pc = "parse"
    /\ fn_in.parser = "get_tapes"
    /\ fn_out' = TapesScan(FailSoftText(fn_in.parser, fn_in.body), <<>>)
    /\ fn_pc' = "parsed"
    /\ UNCHANGED <<fn_in, resetVars, lockVars>>

\* OpenSystem.generate_filesys_report: self.report
ParseReport ==
    /\ fn_pc = "parse"
    /\ fn_in.parser = "generate_filesys_report"
    /\ fn_out' = ReportScan(FailSoftText(fn_in.parser, fn_in.body), 1, <<>>)
    /\ fn_pc' = "parsed"
    /\ UNCHANGED <<fn_in, resetVars, lockVars>>

FailSoftNext == ParseExpired \/ ParseTapes \/ ParseReport

SpecFailSoft == FailSoftInit /\ [][FailSoftNext]_vars

(***************************************************************************)
(* Reading the history of the reclaim pipeline                             *)
(***************************************************************************)
Count(x, seq) == Cardinality({ i \in 1..Len(seq) : seq[i] = x })

Stages == <<"CatalogDelete", "Export", "Remove", "Create", "Import", "Label">>

\* the number of the stage a logged command belongs to, 0 for any other entry
StageNum(ev) ==
    IF ev.tape = 0 THEN 0
    ELSE IF ev.kind = "nsrmm" THEN 1
    ELSE IF ev.kind = "nsrjb" THEN 6
    ELSE IF ev.kind # "ssh" THEN 0
    ELSE IF StartsWith(ev.cmd, "vtl export ") THEN 2
    ELSE IF StartsWith(ev.cmd, "vtl tape del ") THEN 3
    ELSE IF StartsWith(ev.cmd, "vtl tape add ") THEN 4
    ELSE IF StartsWith(ev.cmd, "vtl import ") THEN 5
    ELSE 0

\* the positions of the log holding a stage command of the tape at position k
StageEvents(k) ==
    { i \in 1..Len(log) : log[i].tape = k /\ StageNum(log[i]) > 0 }

\* the command came back and the pipeline took its stage as passed
Passed(ev) ==
    \/ ev.kind = "nsrmm" /\ ev.res \in {"ok", "stderr"}
    \/ ev.kind = "ssh" /\ ev.res = "output"
    \/ ev.kind = "nsrjb" /\ ev.res = "ok"

\* the command came back and told its caller it failed
Failed(ev) ==
    \/ ev.kind = "ssh" /\ ev.res = "False"
    \/ ev.kind = "nsrjb" /\ ev.res = "CalledProcessError"

Issued(k, n) == \E i \in StageEvents(k) : StageNum(log[i]) = n

IssuedWith(k, n, results) ==
    \E i \in StageEvents(k) : StageNum(log[i]) = n /\ log[i].res \in results

\* the number of tapes that were put in a collection so far
NumOutcomes ==
    Len(local_created_tapes) + Len(failed_tape_while_export)
    + Len(failed_tape_while_remove) + Len(failed_tape_while_create)
    + Len(failed_tape_while_import)
    + Len(failed_tape_while_delete_on_networker)

\* the loop is through with the tape at position k
Completed(k) == k \in 1..Len(retention_locked_tape_list) /\ k < idx

BatchFinished ==
    /\ pc \in {"end_of_batch", "check_result", "done"}
    /\ Len(retention_locked_tape_list) > 0

Barcodes(tapes) == [ i \in 1..Len(tapes) |-> tapes[i].barcode ]

ListBarcodes == { retention_locked_tape_list[k].barcode :
                      k \in 1..Len(retention_locked_tape_list) }

IsVault(tape) == FirstField(tape.location) = "vault"

(***************************************************************************)
(* C1 .. C6: the reclaim pipeline                                          *)
(***************************************************************************)

\* C1: a failure while handling one tape never aborts the batch: whenever
\* the run has stopped, every tape of the batch other than the one whose
\* handling failed has been processed to an outcome of its own.
C1_NoTapeAbortsTheBatch ==
    pc \in {"done", "crashed"} =>
        \A k \in 1..Len(retention_locked_tape_list) :
            (pc = "crashed" /\ k = idx) \/ k <= NumOutcomes

\* the command came back without reporting an error
Succeeded(ev) ==
    \/ ev.kind = "nsrmm" /\ ev.res = "ok"
    \/ ev.kind = "ssh" /\ ev.res = "output"
    \/ ev.kind = "nsrjb" /\ ev.res = "ok"

\* the barcode of the tape a logged stage command belongs to
BarcodeOf(ev) == retention_locked_tape_list[ev.tape].barcode

\* C2: for every tape (barcode) the stage commands are issued in the fixed
\* order CatalogDelete, Export, Remove, Create, Import, Label; a stage
\* command is issued only after every earlier stage of that tape was
\* issued and succeeded, and nothing is issued for the tape after a stage
\* that failed.
C2_StageOrder ==
    \A j \in 1..Len(log) :
        StageNum(log[j]) > 0 =>
            /\ \A m \in 1..(StageNum(log[j]) - 1) :
                   \E i \in 1..(j - 1) :
                       /\ StageNum(log[i]) = m
                       /\ BarcodeOf(log[i]) = BarcodeOf(log[j])
                       /\ Succeeded(log[i])
            /\ \A i \in 1..(j - 1) :
                   (StageNum(log[i]) > 0
                       /\ BarcodeOf(log[i]) = BarcodeOf(log[j])) =>
                       /\ StageNum(log[i]) < StageNum(log[j])
                       /\ Succeeded(log[i])

\* the export command of a tape was issued after its catalog delete
\* reported an error; no barcode is listed twice
C2_ExportAfterDeleteError ==
    /\ \A k, l \in 1..Len(retention_locked_tape_list) :
           retention_locked_tape_list[k].barcode =
               retention_locked_tape_list[l].barcode => k = l
    /\ \E k \in 1..Len(retention_locked_tape_list) :
           /\ IssuedWith(k, 1, {"stderr"})
           /\ Issued(k, 2)

\* no catalog delete of the batch reported an error so far
NoDeleteError ==
    \A i \in 1..Len(log) : ~(log[i].kind = "nsrmm" /\ log[i].res = "stderr")

\* no barcode is in the eligible list twice
NoRepeatedBarcode ==
    \A k, l \in 1..Len(retention_locked_tape_list) :
        retention_locked_tape_list[k].barcode =
            retention_locked_tape_list[l].barcode => k = l

\* what holds of the order: it is kept in every batch in which no catalog
\* delete reported an error and no barcode is listed twice
C2_OrderOtherwise == (NoDeleteError /\ NoRepeatedBarcode) => C2_StageOrder

\* C3: when the catalog delete command of a tape reports an error, the
\* tape is recorded in the CatalogDelete failure bucket and no export,
\* tape del, tape add, import or label command is issued for it.
C3_DeleteFailureIsTerminal ==
    \A k \in 1..Len(retention_locked_tape_list) :
        IssuedWith(k, 1, {"stderr"}) =>
            /\ \A n \in 2..6 : ~Issued(k, n)
            /\ Completed(k) =>
                   retention_locked_tape_list[k].barcode \in
                       { failed_tape_while_delete_on_networker[i].barcode :
                           i \in 1..Len(failed_tape_while_delete_on_networker) }

\* the barcodes of the collection with that name
Collection(name) ==
    CASE name = "Succeeded"     -> local_created_tapes
      [] name = "CatalogDelete" -> Barcodes(failed_tape_while_delete_on_networker)
      [] name = "Export"        -> Barcodes(failed_tape_while_export)
      [] name = "Remove"        -> Barcodes(failed_tape_while_remove)
      [] name = "Create"        -> Barcodes(failed_tape_while_create)
      [] name = "Import"        -> Barcodes(failed_tape_while_import)

CollectionNames ==
    {"Succeeded", "CatalogDelete", "Export", "Remove", "Create", "Import"}

\* the command came back and reported an error
ReportedError(ev) ==
    \/ ev.kind = "nsrmm" /\ ev.res = "stderr"
    \/ ev.kind = "ssh" /\ ev.res = "False"
    \/ ev.kind = "nsrjb" /\ ev.res = "CalledProcessError"

\* the commands issued for the barcode b that reported an error
ErrorsOf(b) ==
    { i \in 1..Len(log) :
        StageNum(log[i]) > 0 /\ BarcodeOf(log[i]) = b /\ ReportedError(log[i]) }

\* the stage at which the tape with barcode b first failed, 0 when none of
\* its commands reported an error
FirstFailedStage(b) ==
    IF ErrorsOf(b) = {} THEN 0
    ELSE StageNum(log[CHOOSE i \in ErrorsOf(b) : \A j \in ErrorsOf(b) : i <= j])

\* the collections the barcode b is in: the success list and the five
\* failure lists the pipeline keeps (it keeps no list for the Label stage)
CollectionsHolding(b) ==
    { name \in CollectionNames : Count(b, Collection(name)) > 0 }

\* C4: when the batch finishes every tape of the eligible list is in
\* exactly one collection: the failure bucket of the stage at which it
\* first failed, the Label bucket included (so a tape whose Label command
\* failed is in none of the other collections), else the success list
\* when it went through Label, else one failure bucket; the collections
\* are pairwise disjoint.
C4_OutcomePartition ==
    BatchFinished =>
        \A b \in ListBarcodes :
            CASE FirstFailedStage(b) = 0 ->
                     /\ Cardinality(CollectionsHolding(b)) = 1
                     /\ (\E k \in 1..Len(retention_locked_tape_list) :
                            retention_locked_tape_list[k].barcode = b
                                /\ Issued(k, 6))
                            => CollectionsHolding(b) = {"Succeeded"}
              [] FirstFailedStage(b) = 6 -> CollectionsHolding(b) = {}
              [] OTHER ->
                     CollectionsHolding(b) = {Stages[FirstFailedStage(b)]}

\* a finished batch whose tape got an error from the catalog delete: the
\* tape is in the success list, the CatalogDelete bucket is empty
C4_DeleteErrorSucceeded ==
    /\ BatchFinished
    /\ Len(retention_locked_tape_list) = 1
    /\ IssuedWith(1, 1, {"stderr"})
    /\ local_created_tapes = <<retention_locked_tape_list[1].barcode>>
    /\ failed_tape_while_delete_on_networker = <<>>

\* a finished batch in which a tape whose Label command failed is in the
\* success list (what section 4.4 of the design documents)
C4_LabelFailureSucceeded ==
    /\ BatchFinished
    /\ \E k \in 1..Len(retention_locked_tape_list) :
           /\ IssuedWith(k, 6, {"CalledProcessError"})
           /\ Count(retention_locked_tape_list[k].barcode,
                    local_created_tapes) > 0

\* no labeling command of the batch ended in an error so far
NoLabelError ==
    \A i \in 1..Len(log) :
        ~(log[i].kind = "nsrjb" /\ log[i].res = "CalledProcessError")

\* what holds of the collections: the partition is kept in every batch in
\* which neither a catalog delete nor a labeling command reported an error
C4_PartitionOtherwise == (NoDeleteError /\ NoLabelError) => C4_OutcomePartition

\* C5: a tape is in the success list iff its label command was issued,
\* whatever that command gave, and once the loop is through with a tape the
\* label command was issued iff CatalogDelete, Export, Remove, Create and
\* Import were all issued and passed.
C5_SuccessIffLabelAttempted ==
    /\ \A b \in ListBarcodes :
           Count(b, local_created_tapes) =
               Cardinality({ k \in 1..Len(retention_locked_tape_list) :
                   /\ retention_locked_tape_list[k].barcode = b
                   /\ Issued(k, 6) })
    /\ \A k \in 1..Len(retention_locked_tape_list) :
           Completed(k) =>
               (Issued(k, 6) <=>
                    \A n \in 1..5 : IssuedWith(k, n, {"ok", "stderr", "output"}))

\* what holds of the success list: a tape is in it iff run_nsrjb_command
\* returned for it, with True or with False
C5_SuccessIffLabelReturned ==
    /\ \A b \in ListBarcodes :
           Count(b, local_created_tapes) =
               Cardinality({ k \in 1..Len(retention_locked_tape_list) :
                   /\ retention_locked_tape_list[k].barcode = b
                   /\ IssuedWith(k, 6, {"ok", "CalledProcessError"}) })
    /\ \A k \in 1..Len(retention_locked_tape_list) :
           Completed(k) =>
               (Issued(k, 6) <=>
                    \A n \in 1..5 : IssuedWith(k, n, {"ok", "stderr", "output"}))

\* a tape whose label command failed is in the success list, beside a tape
\* whose label command passed
C5_FailedLabelSucceeded ==
    /\ pc = "done"
    /\ \E k, l \in 1..Len(retention_locked_tape_list) :
           /\ IssuedWith(k, 6, {"CalledProcessError"})
           /\ IssuedWith(l, 6, {"ok"})
           /\ Count(retention_locked_tape_list[k].barcode, created_tapes) = 1
           /\ Count(retention_locked_tape_list[l].barcode, created_tapes) = 1

\* the label command of a tape could not be started: the tape went through
\* the five earlier stages and is in no list
C5_LabelRaised ==
    /\ pc = "crashed"
    /\ \E k \in 1..Len(retention_locked_tape_list) :
           /\ IssuedWith(k, 6, {"raise"})
           /\ \A n \in 1..5 : IssuedWith(k, n, {"ok", "stderr", "output"})
           /\ Count(retention_locked_tape_list[k].barcode,
                    local_created_tapes) = 0

\* C6: a tape located in a vault passes Export without an export command,
\* goes on to Remove and Create, gets no import command and ends in the
\* Import failure bucket, not in the Export failure bucket.
C6_VaultLifecycle ==
    \A k \in 1..Len(retention_locked_tape_list) :
        (Completed(k) /\ IsVault(retention_locked_tape_list[k])) =>
            /\ ~Issued(k, 2)
            /\ ~Issued(k, 5)
            /\ (IssuedWith(k, 3, {"output"}) /\ IssuedWith(k, 4, {"output"})) =>
                   Count(retention_locked_tape_list[k].barcode,
                         Barcodes(failed_tape_while_import)) > 0
            /\ Count(retention_locked_tape_list[k].barcode,
                     Barcodes(failed_tape_while_export)) = 0

(***************************************************************************)
(* Reading the history of the lock workflow                                *)
(***************************************************************************)
\* the positions of the history holding a remote command that starts with prefix
LockCmds(prefix) ==
    { i \in 1..Len(lock_log) :
        lock_log[i].kind = "ssh" /\ StartsWith(lock_log[i].cmd, prefix) }

QueryAt == LockCmds("mtree retention-lock status mtree ")

EnableAt == LockCmds("mtree retention-lock enable mode governance ")

SetMinAt == LockCmds("mtree retention-lock set min-retention-period ")

SetMaxAt == LockCmds("mtree retention-lock set max-retention-period ")

SetLockAt == LockCmds("vtl tape modify ")

ConfirmationPhrase == "Retention-lock feature is enabled"

\* the step appends one remote command that starts with prefix
IssuedNow(prefix) ==
    /\ Len(lock_log') > Len(lock_log)
    /\ \E i \in (Len(lock_log) + 1)..Len(lock_log') :
           lock_log'[i].kind = "ssh" /\ StartsWith(lock_log'[i].cmd, prefix)

\* the answer to the remote command starting with prefix that the step
\* appends (what execute_ssh_command gave for it)
AnswerNow(prefix) ==
    lock_log'[CHOOSE i \in (Len(lock_log) + 1)..Len(lock_log') :
                  /\ lock_log'[i].kind = "ssh"
                  /\ StartsWith(lock_log'[i].cmd, prefix)].res

\* the outcome lines logged for the tape at position k of the list
OutcomeMsgs(k) ==
    { i \in 1..Len(lock_log) : lock_log[i].kind = "log" /\ lock_log[i].tape = k }

FailedMsgs(k) ==
    { i \in OutcomeMsgs(k) :
        lock_log[i].cmd = "retention-lock failed to set for "
                              \o tape_list[k].barcode }

\* a set-lock command was issued for the tape at position k, and the record
\* re-queried after it has state exactly RO/RL*
LockConfirmed(k) ==
    \E i \in SetLockAt :
        /\ lock_log[i].tape = k
        /\ \E j \in LockCmds("vtl tape show pool ") :
               /\ j > i
               /\ lock_log[j].tape = k
               /\ lock_log[j].res.ok
               /\ StrContains(lock_log[j].res.out,
                      "\n" \o tape_list[k].barcode \o "   "
                           \o tape_list[k].pool_name \o "   "
                           \o tape_list[k].location \o "   RO/RL*   ")

\* C7: governance ordering of the lock workflow: an enable-governance
\* command is issued only after the governance status Query of the run (so
\* never in a run without a Query), a set-min or set-max command only after
\* the Enable step, and a per-tape set-lock command only after the set-min
\* and set-max steps.
C7_GovernanceOrdering ==
    /\ \A e \in EnableAt : \E q \in QueryAt : q < e
    /\ \A m \in SetMinAt \cup SetMaxAt : \A e \in EnableAt : e < m
    /\ \A l \in SetLockAt : \A m \in SetMinAt \cup SetMaxAt : m < l

\* C8: governance gating: a set-min, set-max or per-tape set-lock command is
\* in the history only if the pool governance state is Enabled and the
\* eligible tape list is non-empty; while the state is Disabled (also after
\* a failed Enable) no set-lock command was issued and the run has not
\* been aborted.
C8_GovernanceGating ==
    /\ (SetMinAt \cup SetMaxAt \cup SetLockAt # {}) =>
           (pool_retention_lock_enabled = TRUE /\ Len(tape_list) > 0)
    /\ (pool_retention_lock_enabled = FALSE) =>
           (SetLockAt = {} /\ lock_pc # "crashed")

\* C8 happens: Enable succeeded, and the set-min, set-max and set-lock
\* commands were issued in a run that reached its end.
C8_Witness ==
    /\ lock_pc = "done"
    /\ EnableAt # {}
    /\ SetMinAt # {}
    /\ SetMaxAt # {}
    /\ SetLockAt # {}

\* C9: Enable transition: a step issues the enable-governance command only
\* when the governance state is Disabled and the eligible tape list is
\* non-empty, and after that step the state is Enabled iff the response to
\* that command contains the confirmation phrase 'Retention-lock feature is
\* enabled' (Disabled for the failure signal and for any other text).
C9_EnableTransition ==
    [][ IssuedNow("mtree retention-lock enable mode governance ") =>
            /\ pool_retention_lock_enabled = FALSE
            /\ Len(tape_list) > 0
            /\ (pool_retention_lock_enabled' = TRUE) <=>
                   (/\ AnswerNow("mtree retention-lock enable mode governance ").ok
                    /\ StrContains(
                           AnswerNow("mtree retention-lock enable mode governance ").out,
                           ConfirmationPhrase))
      ]_vars

\* C9 happens: the Query found the pool Disabled, the enable-governance
\* command was issued and its confirmation made the pool Enabled.
C9_Witness ==
    /\ QueryAt # {}
    /\ EnableAt # {}
    /\ \A e \in EnableAt : StrContains(lock_log[e].res.out, ConfirmationPhrase)
    /\ pool_retention_lock_enabled = TRUE

\* the other side: the enable-governance command was answered with a text
\* that does not hold the phrase, and the pool stayed Disabled
C9_StayedDisabled ==
    /\ EnableAt # {}
    /\ \A e \in EnableAt :
           /\ lock_log[e].res.ok
           /\ lock_log[e].res.out = "**** Retention-lock feature is not licensed"
    /\ pool_retention_lock_enabled = FALSE

\* C10: lock-apply outcome: when a run that entered the lock loop is over,
\* every tape of the eligible list has exactly one outcome; its barcode is
\* in the result list iff a set-lock command was issued for it and the
\* record re-queried afterwards has state exactly 'RO/RL*', and otherwise
\* the tape is recorded as failed.
C10_LockApplyOutcome ==
    (/\ lock_pc \in {"done", "crashed"}
     /\ pool_retention_lock_enabled = TRUE
     /\ Len(tape_list) > 0) =>
        \A k \in 1..Len(tape_list) :
            /\ Cardinality(OutcomeMsgs(k)) = 1
            /\ (Count(tape_list[k].barcode, tape_list_result) = 1)
                   <=> LockConfirmed(k)
            /\ (~LockConfirmed(k)) => FailedMsgs(k) # {}

\* the confirming re-query of the tape at position k came back with the
\* failure signal, with empty text, or with no record that can be read
RequeryFailed(k) ==
    \E j \in LockCmds("vtl tape show pool ") :
        /\ lock_log[j].tape = k
        /\ format_tape_data(lock_log[j].res) = <<>>

\* the set-lock command of the tape at position k came back with the
\* failure signal
SetLockFailed(k) ==
    \E i \in SetLockAt : lock_log[i].tape = k /\ ~lock_log[i].res.ok

\* C11: lock workflow isolation: the batch is never aborted; a tape whose
\* set-lock command or confirming re-query failed (failure signal, empty or
\* unparsable response) is marked failed unless the re-query confirmed the
\* lock, and once the loop is left every tape of the list has been attempted.
C11_LockIsolation ==
    /\ lock_pc # "crashed"
    /\ \A k \in 1..Len(tape_list) :
           (RequeryFailed(k) \/ (SetLockFailed(k) /\ ~LockConfirmed(k))) =>
               FailedMsgs(k) # {}
    /\ (lock_pc \in {"get_result", "end", "done"}
            /\ pool_retention_lock_enabled = TRUE) =>
           \A k \in 1..Len(tape_list) : OutcomeMsgs(k) # {}

(***************************************************************************)
(* The selection of the lock workflow (SpecSelect)                         *)
(***************************************************************************)
\* the row under study, as get_tapes records it
Studied ==
    [barcode |-> fn_in.barcode, pool_name |-> fn_in.pool_name,
     location |-> fn_in.location, state |-> fn_in.state, size |-> fn_in.size,
     used |-> fn_in.used, modification_time |-> fn_in.modification_time]

\* the usage figure of the row under study is > 0
UsagePositive == FloatPositive(SplitWs(fn_in.used, "")[1])

\* the placement records whose file name contains the barcode of the row
\* under study and whose size exceeds the minimum usage threshold
Corroborating ==
    { i \in 1..Len(report) :
        /\ StrContains(report[i].file_name, fn_in.barcode)
        /\ BytesGreater(size_to_bytes(report[i].size),
                        size_to_bytes(config.minimum_tape_usage)) }

\* the calendar date of a '%Y/%m/%d %H:%M:%S' text
DateOf(text) == SubSeq(text, 1, 10)

\* the calendar date of the day before the run
YesterdayDate == "2025/02/16"

\* the modification date of the row under study matches the configured
\* mechanism: today's date under mechanism 1, yesterday's under mechanism 2
MatchesMechanism ==
    \/ config.mechanism = 1
           /\ DateOf(fn_in.modification_time) = DateOf(NowText)
    \/ config.mechanism = 2
           /\ DateOf(fn_in.modification_time) = YesterdayDate

\* C12: lock eligibility: the 8-column record of the listing is in the tape
\* list iff its location names a slot, it is usage-eligible (its usage is
\* > 0 or a placement record naming its barcode exceeds the threshold), its
\* state does not contain 'RL' and its modification date matches the
\* mechanism; a record failing one of the four is not in the list, and
\* nothing else is.
C12_LockEligibility ==
    (fn_pc = "selected") =>
        /\ fn_out.tape_list \in {<<>>, <<Studied>>}
        /\ (fn_out.tape_list = <<Studied>>) <=>
               (/\ StrContains(fn_in.location, "slot")
                /\ (UsagePositive \/ Corroborating # {})
                /\ ~StrContains(fn_in.state, "RL")
                /\ MatchesMechanism)

\* a record for which all four predicates hold is not in the list: it is in
\* a slot, its state is RW, it was modified today, and the second placement
\* record naming its barcode exceeds the threshold (the first does not)
C12_EligibleLeftOut ==
    /\ fn_pc = "selected"
    /\ config.mechanism = 1
    /\ fn_in.location = "Pool_TEST slot 2"
    /\ fn_in.state = "RW"
    /\ fn_in.used = "0.0 GiB (0.00%)"
    /\ fn_in.modification_time = "2025/02/17 00:00:00"
    /\ report = <<Placement("/data/col1/FEB_3/.snapshot/A00002L5", "512 MiB"),
                  Placement("/data/col1/FEB_3/A00002L5", "5 GiB")>>
    /\ fn_out.tape_list = <<>>

\* the list against the four values get_tapes computes for the record: the
\* record is in the list iff "slot" is in its location, check_used and
\* check_modification_date returned True and 'RL' is not in its state
C12_ListIffFourChecks ==
    (fn_pc = "selected") =>
        /\ fn_out.tape_list \in {<<>>, <<Studied>>}
        /\ (fn_out.tape_list = <<Studied>>) <=>
               (/\ StrContains(fn_in.location, "slot")
                /\ fn_out.used
                /\ ~StrContains(fn_in.state, "RL")
                /\ fn_out.last_modified)

\* a record that is in a slot, used and modified on the configured day is
\* kept out of the list by its 'RL' state alone.
C12_StateAlone ==
    /\ fn_pc = "selected"
    /\ StrContains(fn_in.location, "slot")
    /\ fn_out.used
    /\ fn_out.last_modified
    /\ StrContains(fn_in.state, "RL")
    /\ fn_out.tape_list = <<>>

\* C13: UsageEligible has OR semantics over an existential match: the record
\* is usage-eligible iff its reported usage is > 0 or there exists a
\* placement record whose file name contains the barcode and whose size
\* exceeds the minimum usage threshold.
C13_UsageEligible ==
    (fn_pc = "selected") =>
        (fn_out.used <=> (UsagePositive \/ Corroborating # {}))

\* C14: ModifiedOn: with mechanism 1 the record matches iff its modification
\* date, time of day dropped, is today's date; with mechanism 2 iff it is
\* yesterday's date; with any other mechanism no record matches (and the
\* call still returns).
C14_ModifiedOn ==
    (fn_pc = "selected") =>
        (fn_out.last_modified <=>
            \/ config.mechanism = 1
                   /\ DateOf(fn_in.modification_time) = DateOf(NowText)
            \/ config.mechanism = 2
                   /\ DateOf(fn_in.modification_time) = YesterdayDate)

\* C14 happens: a record modified in the last second of yesterday matches
\* under mechanism 2.
C14_Witness ==
    /\ fn_pc = "selected"
    /\ config.mechanism = 2
    /\ fn_in.modification_time = "2025/02/16 23:59:59"
    /\ fn_out.last_modified

(***************************************************************************)
(* The selection of the reset workflow (SpecExpired)                       *)
(***************************************************************************)
\* C15: reclaim eligibility: the record is put in the reclaim list iff its
\* state contains the lock marker and its retention timestamp is not 'n/a'
\* and lies strictly before the current time; an unlocked record, a record
\* without a lock date and a record whose retention has not expired are
\* never selected.
C15_ReclaimEligibility ==
    (fn_pc = "reclaim_selected") =>
        (Count(fn_in.row, fn_out) > 0) <=>
            (/\ StrContains(fn_in.row.state, "RL")
             /\ fn_in.row.retention_time # "n/a"
             /\ TimestampGreater(Timestamp(NowText), fn_in.micro,
                                 Timestamp(fn_in.row.retention_time)))

(***************************************************************************)
(* The listing parsers (SpecParse)                                         *)
(***************************************************************************)
\* the positions of the genuine data lines of the body under study
DataLines == { k \in 1..Len(fn_in) : fn_in[k] = "data" }

RECURSIVE DataBarcodes(_, _)
DataBarcodes(k, prefix_suffix) ==
    IF k > Len(fn_in) THEN <<>>
    ELSE (IF fn_in[k] = "data"
          THEN <<prefix_suffix[1] \o NatToStr(k) \o prefix_suffix[2]>>
          ELSE <<>>) \o DataBarcodes(k + 1, prefix_suffix)

\* C16: parser drop-and-continue, for the tape listing parsers of both
\* workflows: the parsed records are exactly the genuine data lines of the
\* text, in order; a blank, heading, separator or wrong-column-count line
\* yields no record and does not keep the lines after it from being parsed.
C16_ParserDropAndContinue ==
    /\ (fn_pc = "parsed get_tapes") =>
           Barcodes(fn_out) = DataBarcodes(1, <<"A0000", "L5">>)
    /\ (fn_pc = "parsed get_tapes_by_pool") =>
           Barcodes(fn_out) = DataBarcodes(1, <<"A5500", "LA">>)

(***************************************************************************)
(* C17: configuration errors are fatal and come first                      *)
(***************************************************************************)
\* the keys a program cannot run without: those its validation tests, and
\* the jukebox name the reset program puts into every label command
RequiredKeys(workflow) ==
    { ValidatedKeys(workflow)[i][1] : i \in 1..Len(ValidatedKeys(workflow)) }
        \cup (IF workflow = "reset" THEN {"jukebox_name"} ELSE {})

RequiredKeyMissing ==
    \E k \in RequiredKeys(fn_in.workflow) : Get(fn_in.data, k) = "None"

ConfigTerminated == fn_pc \in {"exited", "raised", "ended"}

\* an entry of a history that is a remote command: to the appliance (ssh)
\* or to the backup catalog (nsrmm, nsrjb)
IsCommand(ev) == ev.kind \in {"ssh", "nsrmm", "nsrjb"}

CommandsOf(history) ==
    LET issued == SelectSeq(history, IsCommand)
    IN  [ i \in 1..Len(issued) |-> issued[i].cmd ]

\* the remote commands issued so far: by the start-up, by the batch of the
\* reset program and by the lock run
RemoteCommands == fn_out.issued \o CommandsOf(log) \o CommandsOf(lock_log)

\* C17: in both programs, a run whose document lacks a required key issues
\* no remote command and ends with a non-zero exit status; and a process
\* that ends with a non-zero status had a required key missing (every
\* other failure leaves the run going)
C17_ConfigErrorsFatalAndFirst ==
    /\ RequiredKeyMissing /\ fn_pc # "idle" =>
           /\ RemoteCommands = <<>>
           /\ ConfigTerminated => fn_out.status # 0
    /\ ConfigTerminated /\ fn_out.status # 0 => RequiredKeyMissing

\* the part of C17 the programs keep: a key that validate_input_parameters
\* tests and that is absent ends the process with status 1 before any
\* remote command
C17_ValidatedKeysFatalAndFirst ==
    (fn_pc # "idle" /\ FailedTests(fn_in.workflow, fn_in.data) # {}) =>
        /\ RemoteCommands = <<>>
        /\ fn_pc \in {"load_input_params", "validate_input_parameters",
                      "exited"}
        /\ fn_pc = "exited" => fn_out.status = 1

\* a reset run without jukebox name that has issued remote commands
C17_JukeboxSeen ==
    /\ fn_pc = "raised"
    /\ fn_in.workflow = "reset"
    /\ Get(fn_in.data, "jukebox_name") = "None"
    /\ RemoteCommands # <<>>

\* a run with every required key given that ends with a non-zero status
C17_OtherFailureFatal ==
    /\ fn_pc = "raised"
    /\ ~RequiredKeyMissing
    /\ fn_out.status = 1

(***************************************************************************)
(* C18: a retrieval that fails is recovered as an empty result             *)
(***************************************************************************)
\* the answer of the instance whose pools have just been looked up
PoolAnswerNow == fn_in[fn_out.instance]

\* C18: when a report fetch returns the failure signal or empty text, the
\* corresponding record set is empty and the run continues: here the pool
\* listing of an instance and the pools the run then takes for it
C18_RetrievalFailureEmpty ==
    (fn_pc = "check_vtl_state" /\ ~Truthy(PoolAnswerNow)) =>
        fn_out.doamin_specific_pools = <<>>

\* the same for the first instance of a run, where it holds
C18_FirstInstanceEmpty ==
    (fn_pc = "check_vtl_state" /\ ~Truthy(PoolAnswerNow)
        /\ fn_out.instance = 1) =>
        fn_out.doamin_specific_pools = <<>>

\* a batch is run for an instance whose pool listing failed
C18_BatchWithoutListing ==
    /\ fn_pc = "ended"
    /\ \E k \in 1..Len(fn_out.batches) :
         ~Truthy(fn_in[fn_out.batches[k].instance])

\* the three fetches of the lock program: a failed or empty answer leaves
\* the tape list, the placement report and the governance flag empty, and
\* the run goes on to its next step
C18_LockRetrievals ==
    /\ \A i \in 1..Len(lock_log) :
         (lock_log[i].kind = "ssh" /\ ~Truthy(lock_log[i].res)) =>
            /\ (StartsWith(lock_log[i].cmd, "vtl tape show pool FEB_3 sort-by")
                   /\ lock_pc = "main") => (tape_list = <<>>)
            /\ StartsWith(lock_log[i].cmd, "filesys report generate")
                   => (report = <<>>)
            /\ (StartsWith(lock_log[i].cmd, "mtree retention-lock status")
                   /\ lock_pc = "generate_filesys_report") =>
                      (pool_retention_lock_enabled = FALSE)
    /\ lock_pc = "crashed" =>
         StartsWith(lock_log[Len(lock_log)].cmd,
                    "vtl tape show pool FEB_3 barcode")

\* the three fetches of the lock program have failed in one run
C18_LockRetrievalsSeen ==
    /\ lock_pc = "main"
    /\ \A prefix \in {"vtl tape show pool FEB_3 sort-by",
                       "filesys report generate",
                       "mtree retention-lock status"} :
         \E i \in 1..Len(lock_log) :
            /\ lock_log[i].kind = "ssh"
            /\ StartsWith(lock_log[i].cmd, prefix)
            /\ ~Truthy(lock_log[i].res)

(***************************************************************************)
(* C19: the contents of the result report of a batch                       *)
(***************************************************************************)
SeqSet(s) == { s[k] : k \in 1..Len(s) }

\* the barcodes the final listing of a batch shows
ShownIn(final) ==
    IF ~Truthy(final) THEN {}
    ELSE { b \in SeqSet(BatchBarcodes) : StrContains(final.out, b) }

\* the reports handed to the sink for batch i
ReportsOf(i) ==
    { k \in 1..Len(fn_out.reports) : fn_out.reports[k].batch = i }

\* batch i has had its check_result
Reported(i) ==
    i < fn_out.batch \/ fn_pc = "ended"

\* C19: the result set handed to the report sink for a batch holds a record
\* for every tape of the batch's success list that the final listing shows
\* and no record for a barcode outside that success list; a tape that
\* passed every stage and is shown by the final listing is in the report
C19_ReportContents ==
    \A i \in 1..Len(fn_in) :
        Reported(i) =>
            /\ \A k \in ReportsOf(i) :
                 /\ SeqSet(fn_in[i].succeeded) \cap ShownIn(fn_in[i].final)
                        \subseteq SeqSet(Barcodes(fn_out.reports[k].tape_list))
                 /\ SeqSet(Barcodes(fn_out.reports[k].tape_list))
                        \subseteq SeqSet(fn_in[i].succeeded)
            /\ \A b \in SeqSet(fn_in[i].succeeded) \cap ShownIn(fn_in[i].final) :
                 \E k \in ReportsOf(i) :
                     b \in SeqSet(Barcodes(fn_out.reports[k].tape_list))

\* the same for the first batch of a run, where it holds
C19_FirstBatchReport ==
    Reported(1) =>
        /\ \A k \in ReportsOf(1) :
             SeqSet(Barcodes(fn_out.reports[k].tape_list)) =
                 SeqSet(fn_in[1].succeeded) \cap ShownIn(fn_in[1].final)
        /\ \A b \in SeqSet(fn_in[1].succeeded) \cap ShownIn(fn_in[1].final) :
             ReportsOf(1) # {}

\* a report for a batch that selected no tape holds a record
C19_StaleRecord ==
    \E k \in 1..Len(fn_out.reports) :
        /\ fn_in[fn_out.reports[k].batch].selected = <<>>
        /\ fn_out.reports[k].tape_list # <<>>

(***************************************************************************)
(* C20: the monthly value overrides the daily one                          *)
(***************************************************************************)
\* the period the claim gives for a (daily, monthly) pair, "" for none
ClaimedPeriod(daily, monthly) ==
    IF PositiveInt(monthly) THEN PyStr(monthly) \o "year"
    ELSE IF PositiveInt(daily) THEN PyStr(daily) \o "day"
    ELSE ""

MaxDaily == config.maximum_retention_lock_period_daily_backup_in_days

MaxMonthly == config.maximum_retention_lock_period_monthly_backup_in_years

TapeDaily == config.retention_lock_period_for_tapes_in_days

TapeMonthly == config.retention_lock_period_for_tapes_for_monthly_in_years

\* C20: for the maximum bound of the mtree and for the lock duration of a
\* tape, the period of the command is '<monthly>year' when the monthly
\* value is a positive integer, whatever the daily value; else
\* '<daily>day' when the daily value is a positive integer; when neither
\* is, no set command is issued
C20_RetentionOverride ==
    /\ fn_pc = "max set" =>
         IF ClaimedPeriod(MaxDaily, MaxMonthly) = ""
         THEN fn_out = <<>>
         ELSE fn_out # <<>> =>
                fn_out = <<"mtree retention-lock set max-retention-period "
                             \o ClaimedPeriod(MaxDaily, MaxMonthly)
                             \o " mtree /data/col1/FEB_3">>
    /\ fn_pc = "max set" /\ pool_retention_lock_enabled
           /\ ClaimedPeriod(MaxDaily, MaxMonthly) # "" => fn_out # <<>>
    /\ fn_pc = "tape period set" =>
         IF ClaimedPeriod(TapeDaily, TapeMonthly) = ""
         THEN fn_out = <<>>
         ELSE fn_out = <<"vtl tape modify A00001L5 pool FEB_3 retention-lock "
                            \o ClaimedPeriod(TapeDaily, TapeMonthly)>>

\* both values are positive integers and the commands carry the monthly one
C20_Witness ==
    /\ TapeDaily = PyInt(30) /\ TapeMonthly = PyInt(2)
    /\ \/ fn_pc = "tape period set"
          /\ fn_out = <<"vtl tape modify A00001L5 pool FEB_3 retention-lock 2year">>
       \/ fn_pc = "max set"
          /\ fn_out = <<"mtree retention-lock set max-retention-period 2year mtree /data/col1/FEB_3">>

(***************************************************************************)
(* C21: strict sequencing of the remote commands                           *)
(***************************************************************************)
\* the remote commands among the outstanding calls (a wait is no command)
CommandsOutstanding == {call \in fn_out.outstanding : call.step \notin Waits}

\* the call belongs to the tape (or, outside the tape loop, to the pool or
\* the instance) the run is at
OfCurrentUnit(call) ==
    /\ call.instance = fn_out.at.instance
    /\ call.pool = fn_out.at.pool
    /\ call.tape = fn_out.at.tape

\* C21: at most one remote command is outstanding at any time; every call
\* outstanding belongs to the tape, pool and instance the run is at, so all
\* commands and waits of an earlier one are over; and when a command is
\* about to be issued nothing is outstanding, except the nsrmm of the same
\* tape between its start and process.communicate()
C21_StrictSequencing ==
    /\ Cardinality(CommandsOutstanding) <= 1
    /\ \A call \in fn_out.outstanding : OfCurrentUnit(call)
    /\ (fn_pc = "call"
           /\ fn_out.at.step \notin {"sleep 50", "stdin.write", "communicate"})
           => fn_out.outstanding = {}
    /\ (fn_pc = "call"
           /\ fn_out.at.step \in {"sleep 50", "stdin.write", "communicate"})
           => fn_out.outstanding = {[fn_out.at EXCEPT !.step = "nsrmm -d"]}

\* the catalog delete of the second tape of the second pool of the second
\* instance runs during the pause that precedes its confirmation, after a
\* first tape that was in the vault
C21_Witness ==
    /\ fn_pc = "wait"
    /\ fn_in.tapes = <<"vault", "slot">>
    /\ fn_out.at = Call(2, 2, 2, "sleep 50")
    /\ fn_out.outstanding = {fn_out.at, Call(2, 2, 2, "nsrmm -d")}

\* the process was left by the write to the stdin of nsrmm: nsrmm is
\* started and not awaited, and no call follows
C21_LeftByWrite ==
    /\ fn_pc = "raised"
    /\ fn_out.outstanding = {[fn_out.at EXCEPT !.step = "nsrmm -d"]}

(***************************************************************************)
(* C22: the settle intervals of the reclaim pipeline                       *)
(***************************************************************************)
\* the fixed pause: one entry, of 60 units, for the tape at position k
IsSettle(ev, k) == ev.kind = "sleep" /\ ev.cmd = "60" /\ ev.tape = k

\* C22: in the history of a batch, a catalog delete that returned is followed
\* at once by one pause of 60 units for the same tape, whatever it answered;
\* every appliance-side command of a tape (export, tape del, tape add,
\* import) comes after that pause; and a label command is preceded at once
\* by a second pause of 60 units, itself preceded at once by the import of
\* the same tape, which succeeded. A pause is a single entry: nothing is
\* polled or issued again in between
C22_SettleIntervals ==
    \A i \in 1..Len(log) :
        /\ (log[i].kind = "nsrmm" /\ log[i].res # "raise") =>
               /\ i + 1 <= Len(log)
               /\ IsSettle(log[i + 1], log[i].tape)
               /\ (i + 2 <= Len(log)) => log[i + 2].kind # "sleep"
        /\ StageNum(log[i]) \in 2..5 =>
               \E d \in 1..(i - 1) :
                   /\ StageNum(log[d]) = 1
                   /\ log[d].tape = log[i].tape
                   /\ IsSettle(log[d + 1], log[i].tape)
                   /\ d + 1 < i
        /\ StageNum(log[i]) = 6 =>
               /\ i > 2
               /\ IsSettle(log[i - 1], log[i].tape)
               /\ StageNum(log[i - 2]) = 5
               /\ log[i - 2].tape = log[i].tape
               /\ Passed(log[i - 2])

\* a batch ended in which a tape made it through both pauses: its catalog
\* delete answered on stderr, and it was labeled after its import
C22_Witness ==
    /\ BatchFinished
    /\ \E i \in 1..Len(log) :
           /\ log[i].kind = "nsrmm"
           /\ log[i].res = "stderr"
           /\ \E j \in (i + 1)..Len(log) :
                  /\ StageNum(log[j]) = 6
                  /\ log[j].tape = log[i].tape
                  /\ IsSettle(log[j - 1], log[i].tape)

(***************************************************************************)
(* C23: at most once per tape                                              *)
(***************************************************************************)
\* the positions of the log holding the command of stage n for barcode b
CommandsFor(b, n) ==
    { i \in 1..Len(log) :
          /\ StageNum(log[i]) = n
          /\ retention_locked_tape_list[log[i].tape].barcode = b }

\* the number of terminal outcomes recorded for barcode b
OutcomesOf(b) ==
    Count(b, local_created_tapes)
    + Count(b, Barcodes(failed_tape_while_export))
    + Count(b, Barcodes(failed_tape_while_remove))
    + Count(b, Barcodes(failed_tape_while_create))
    + Count(b, Barcodes(failed_tape_while_import))
    + Count(b, Barcodes(failed_tape_while_delete_on_networker))

\* C23: within the reclaim run of a pool every barcode is processed at most
\* once: the command of each stage is issued at most once for it, so no
\* stage is tried again, and when the batch is over exactly one terminal
\* outcome is recorded for it
C23_AtMostOncePerTape ==
    \A b \in ListBarcodes :
        /\ \A n \in 1..6 : Cardinality(CommandsFor(b, n)) <= 1
        /\ OutcomesOf(b) <= 1
        /\ BatchFinished => OutcomesOf(b) = 1

\* the same, read per entry of the reclaim list instead of per barcode: the
\* loop visits each entry once
C23_AtMostOncePerEntry ==
    \A k \in 1..Len(retention_locked_tape_list) :
        /\ \A n \in 1..6 :
               Cardinality({i \in StageEvents(k) : StageNum(log[i]) = n}) <= 1
        /\ Completed(k) => \A n \in 1..6 :
               IssuedWith(k, n, {"False", "CalledProcessError"}) =>
                   \A m \in (n + 1)..6 : ~Issued(k, m)
        /\ BatchFinished => NumOutcomes = Len(retention_locked_tape_list)

\* a batch ended in which a tape failed at a stage after an earlier tape
\* passed all of them
C23_EntriesSeen ==
    /\ BatchFinished
    /\ Len(retention_locked_tape_list) >= 2
    /\ Len(local_created_tapes) >= 1
    /\ \E k \in 2..Len(retention_locked_tape_list) :
           IssuedWith(k, 4, {"False"})

(***************************************************************************)
(* C24: the failure lists are reported at the end of the batch             *)
(***************************************************************************)
\* the failure list of stage n as it was logged: the records under the
\* heading of that stage, none when no such heading was logged
StageList(n) ==
    CASE n = 2 -> "[START][FAILED] List of tapes failed while export from library"
      [] n = 3 -> "[START][FAILED] Listing tapes failed while remove from pool"
      [] n = 4 -> "[START][FAILED] List of tapes failed while create on pool"
      [] n = 5 -> "[START][FAILED] List of tapes failed while import into pool"
      [] OTHER -> "no list is logged for this stage"

LoggedFailures(n) ==
    UNION { SeqSet(log[i].res) :
                i \in { m \in 1..Len(log) :
                            log[m].kind = "log" /\ log[m].cmd = StageList(n) } }

\* the tape at position k failed at stage n: the delete answered on stderr,
\* the labeling ended in CalledProcessError, or, for an appliance stage,
\* the stage before was passed and this one was not
FailedAt(k, n) ==
    /\ Completed(k)
    /\ CASE n = 1 -> IssuedWith(k, 1, {"stderr"})
         [] n = 6 -> IssuedWith(k, 6, {"CalledProcessError"})
         [] OTHER -> /\ \E i \in StageEvents(k) :
                            StageNum(log[i]) = n - 1 /\ Passed(log[i])
                     /\ ~\E i \in StageEvents(k) :
                            StageNum(log[i]) = n /\ Passed(log[i])

\* the failure lists are logged after the last stage command of the batch
ReportedAtEnd ==
    \A i \in 1..Len(log) :
        (log[i].kind = "log") =>
            /\ pc \in {"check_result", "done"}
            /\ \A j \in 1..Len(log) : StageNum(log[j]) > 0 => j < i

\* C24: the failure lists are reported only after the last tape of the batch
\* has been processed, and once they are, every tape that failed at a stage,
\* CatalogDelete and Label included, is in the logged list of that stage
C24_EndOfBatchReporting ==
    /\ ReportedAtEnd
    /\ pc \in {"check_result", "done"} =>
           \A k \in 1..Len(retention_locked_tape_list), n \in 1..6 :
               FailedAt(k, n) =>
                   retention_locked_tape_list[k] \in LoggedFailures(n)

\* the same for the four appliance stages only (export, remove, create,
\* import), whose lists the code logs
C24_ApplianceStagesReported ==
    /\ ReportedAtEnd
    /\ pc \in {"check_result", "done"} =>
           \A k \in 1..Len(retention_locked_tape_list), n \in 2..5 :
               FailedAt(k, n) =>
                   retention_locked_tape_list[k] \in LoggedFailures(n)

\* a batch was reported in which one tape failed at the import and another
\* at the export
C24_ListsSeen ==
    /\ pc \in {"check_result", "done"}
    /\ \E k, m \in 1..Len(retention_locked_tape_list) :
           FailedAt(k, 5) /\ FailedAt(m, 2)
    /\ LoggedFailures(5) # {}

\* a batch was reported in which the labeling of a tape failed and no logged
\* list holds the tape
C24_LabelFailureUnreported ==
    /\ pc \in {"check_result", "done"}
    /\ \E k \in 1..Len(retention_locked_tape_list) :
           /\ FailedAt(k, 6)
           /\ \A n \in 1..6 :
                  retention_locked_tape_list[k] \notin LoggedFailures(n)

(***************************************************************************)
(* C25: the governance query                                               *)
(***************************************************************************)
\* the fields of a line of the status text
StatusFields(line) == NonBlankStripped(Split(line, "  "))

\* the status text holds a line giving `value` for `option`
HasOption(data, option, value) ==
    /\ data.ok
    /\ \E line \in SeqSet(Split(data.out, "\n")) :
           LET arr == StatusFields(line)
           IN  Len(arr) >= 2 /\ arr[1] = option /\ arr[2] = value

ContainsBoth(data) ==
    /\ HasOption(data, "Retention-lock", "enabled")
    /\ HasOption(data, "Retention-lock mode", "governance")

\* the rows of a status table: the lines under the two heading lines, up to
\* the rule that closes the table
RECURSIVE UpToRule(_)
UpToRule(lines) ==
    IF lines = <<>> \/ StartsWith(Head(lines), "--") THEN <<>>
    ELSE <<Head(lines)>> \o UpToRule(Tail(lines))

\* the response can be parsed: it came back, it is a table under the two
\* heading lines, each of its rows has an option and a value, and nothing
\* follows the rule that closes it
Parsable(data) ==
    /\ data.ok
    /\ LET lines == Split(data.out, "\n")
           rows  == IF Len(lines) >= 2
                    THEN UpToRule(SubSeq(lines, 3, Len(lines))) ELSE <<>>
       IN  /\ Len(lines) >= 2
           /\ SubSeq(lines, 1, 2) = StatusHeading
           /\ \A k \in 1..Len(rows) : Len(StatusFields(rows[k])) >= 2
           /\ Len(lines) <= 2 + Len(rows) + 1

\* C25 as claimed: after the query the pool state is Enabled iff the status
\* text holds both the option 'Retention-lock' with value 'enabled' and the
\* option 'Retention-lock mode' with value 'governance'; in every other
\* case, a failed or unparsable response included, it is Disabled
C25_AsClaimed ==
    (fn_pc = "queried") =>
        /\ fn_out[1] <=> ContainsBoth(fn_in)
        /\ (~fn_in.ok \/ ~Parsable(fn_in)) => ~fn_out[1]

\* the rows the query reads: the lines that follow the first two lines of
\* the text, up to the first line that starts with '--' or has fewer than
\* two fields
RECURSIVE ReadRows(_)
ReadRows(lines) ==
    IF lines = <<>> THEN <<>>
    ELSE IF StartsWith(Head(lines), "--") THEN <<>>
    ELSE IF Len(StatusFields(Head(lines))) < 2 THEN <<>>
    ELSE <<Head(lines)>> \o ReadRows(Tail(lines))

RowsRead(data) ==
    IF ~data.ok THEN <<>>
    ELSE LET lines == Split(data.out, "\n")
         IN  ReadRows(SubSeq(lines, 3, Len(lines)))

\* one of the rows read gives `value` for `option`
ReadOption(data, option, value) ==
    \E k \in 1..Len(RowsRead(data)) :
        LET arr == StatusFields(RowsRead(data)[k])
        IN  arr[1] = option /\ arr[2] = value

\* C25 as amended: after the query the pool state is Enabled iff the rows
\* the query reads (the lines after the first two lines of the status text,
\* up to the first line that starts with '--' or has fewer than two fields)
\* hold both the option 'Retention-lock' with value 'enabled' and the option
\* 'Retention-lock mode' with value 'governance'; a failed response gives
\* Disabled, and so does a text holding the options only in its first two
\* lines or after the line where the reading stops
C25_GovernanceQuery ==
    (fn_pc = "queried") =>
        /\ fn_out[1] <=>
               (/\ ReadOption(fn_in, "Retention-lock", "enabled")
                /\ ReadOption(fn_in, "Retention-lock mode", "governance"))
        /\ ~fn_in.ok => ~fn_out[1]

\* the query answered Enabled for a response that cannot be parsed to its
\* end: both options are read before a blank line
C25_Witness ==
    /\ fn_pc = "queried"
    /\ fn_out = <<TRUE>>
    /\ ~Parsable(fn_in)
    /\ fn_in.out = JoinStatus(StatusHeading \o
                       << "Retention-lock mode   governance",
                          "Retention-lock    enabled", "" >>)

\* the query answered Enabled for a well-formed table holding both options
C25_ParsableSeen ==
    /\ fn_pc = "queried"
    /\ fn_out = <<TRUE>>
    /\ Parsable(fn_in)
    /\ fn_in.out = JoinStatus(StatusHeading \o
                       << "Retention-lock mode   governance",
                          "Retention-lock    enabled", "------  -----" >>)

\* the query answered Disabled for a text that holds both options: they
\* come after a blank line
C25_UnparsableSeen ==
    /\ fn_pc = "queried"
    /\ fn_out = <<FALSE>>
    /\ ContainsBoth(fn_in)
    /\ ~Parsable(fn_in)

(***************************************************************************)
(* C26: fail-soft parsing                                                  *)
(***************************************************************************)
\* the kinds of line at which the loop of a parser raises
RaisingKinds(parser) ==
    CASE parser = "get_tapes_by_pool" -> {"blank", "heading", "short", "undated"}
      [] parser = "get_tapes" -> {"undated"}
      [] parser = "generate_filesys_report" -> {"blank", "short"}

\* the kinds of line a parser makes a record of
RecordKinds(parser) ==
    CASE parser = "get_tapes_by_pool" -> {"data"}
      [] parser = "get_tapes" -> {"data"}
      [] parser = "generate_filesys_report" -> {"data", "heading", "undated"}

\* the rule that ends the table ends the loop of the two parsers that count
\* lines; get_tapes skips it
EndingKinds(parser) == IF parser = "get_tapes" THEN {} ELSE {"separator"}

\* the first body line at which the loop raises, 0 when none does before the
\* loop ends
FirstRaise(parser, body) ==
    LET stops == { k \in 1..Len(body) :
                       body[k] \in RaisingKinds(parser) \cup EndingKinds(parser) }
    IN  IF stops = {} THEN 0
        ELSE LET k == CHOOSE j \in stops : \A m \in stops : j <= m
             IN  IF body[k] \in RaisingKinds(parser) THEN k ELSE 0

\* the name a parser gives the record it makes of body line k
RecordName(parser, kind, k) ==
    CASE parser = "get_tapes_by_pool" -> "A5500" \o NatToStr(k) \o "LA"
      [] parser = "get_tapes" -> "A0000" \o NatToStr(k) \o "L5"
      [] kind = "heading" -> "File Name"
      [] kind = "undated" -> "/data/col1/FEB_3/A9999" \o NatToStr(k) \o "L5"
      [] OTHER -> "/data/col1/FEB_3/A0000" \o NatToStr(k) \o "L5"

RECURSIVE NamesBefore(_, _, _, _)
NamesBefore(parser, body, k, from) ==
    IF from >= k THEN <<>>
    ELSE (IF body[from] \in RecordKinds(parser)
          THEN <<RecordName(parser, body[from], from)>> ELSE <<>>)
             \o NamesBefore(parser, body, k, from + 1)

ParsedNames ==
    [ i \in 1..Len(fn_out) |->
          IF fn_in.parser = "generate_filesys_report" THEN fn_out[i].file_name
          ELSE fn_out[i].barcode ]

\* C26: when the loop of a parser raises at a line, the parser returns all
\* the same, and its result holds exactly the records made of the lines
\* before that line, in order
C26_FailSoftParsing ==
    (fn_pc = "parsed" /\ FirstRaise(fn_in.parser, fn_in.body) > 0) =>
        ParsedNames = NamesBefore(fn_in.parser, fn_in.body,
                                  FirstRaise(fn_in.parser, fn_in.body), 1)

\* each of the three parsers returned two records after it raised at the
\* third line
C26_Witness ==
    /\ fn_pc = "parsed"
    /\ FirstRaise(fn_in.parser, fn_in.body) = 3
    /\ Len(fn_out) = 2
    /\ fn_in.parser = "get_tapes"

C26_ReportWitness ==
    /\ fn_pc = "parsed"
    /\ FirstRaise(fn_in.parser, fn_in.body) = 3
    /\ Len(fn_out) = 2
    /\ fn_in.parser = "generate_filesys_report"

C26_ExpiredWitness ==
    /\ fn_pc = "parsed"
    /\ FirstRaise(fn_in.parser, fn_in.body) = 3
    /\ Len(fn_out) = 2
    /\ fn_in.parser = "get_tapes_by_pool"

(***************************************************************************)
(* C27: termination of the reclaim batch                                   *)
(***************************************************************************)
\* the loop over the reclaim list is over and every tape of the list is in
\* the success list or in one failure list
BatchTerminated ==
    /\ pc \in {"end_of_batch", "check_result", "done"}
    /\ NumOutcomes = Len(retention_locked_tape_list)

\* C27: provided every remote command returns, the reclaim batch terminates
\* and every tape of the list has reached a terminal outcome
C27_Termination == <>BatchTerminated

\* the run always comes to an end, by reaching the end of the program or by
\* an exception that leaves it
C27_RunEnds == <>(pc \in {"done", "crashed"})

\* the run that ended without exception gave every tape of the list an
\* outcome
C27_OutcomesUnlessRaised ==
    (pc = "done") => NumOutcomes = Len(retention_locked_tape_list)

\* an exception left the run after the first tape of a list of two was
\* removed from the catalog and from the pool: neither tape has an outcome
C27_LeftWithoutOutcome ==
    /\ pc = "crashed"
    /\ Len(retention_locked_tape_list) = 2
    /\ idx = 1
    /\ Issued(1, 3)
    /\ NumOutcomes = 0

(***************************************************************************)
(* C28: no result carry-over between pools                                 *)
(***************************************************************************)
\* the result queries issued for batch i
QueriesOf(i) ==
    { k \in 1..Len(fn_out.queries) : fn_out.queries[k].batch = i }

\* C28: the result query and the report of a pool use only the barcodes
\* that succeeded in the pipeline run of that pool; and for a pool without
\* eligible tape (none selected, or its listing failed) no result query is
\* issued and no report is written, whatever the batches before it did
C28_NoCarryOver ==
    \A i \in 1..Len(fn_in) :
        Reported(i) =>
            /\ \A k \in QueriesOf(i) :
                   fn_out.queries[k].barcodes = fn_in[i].succeeded
            /\ \A k \in ReportsOf(i) :
                   SeqSet(Barcodes(fn_out.reports[k].tape_list))
                       \subseteq SeqSet(fn_in[i].succeeded)
            /\ (fn_in[i].selected = <<>>) =>
                   QueriesOf(i) = {} /\ ReportsOf(i) = {}

\* the same for a batch that selected a tape, whatever came before it
C28_OwnBarcodesWhenSelected ==
    \A i \in 1..Len(fn_in) :
        (Reported(i) /\ fn_in[i].selected # <<>>) =>
            /\ \A k \in QueriesOf(i) :
                   fn_out.queries[k].barcodes = fn_in[i].succeeded
            /\ \A k \in ReportsOf(i) :
                   SeqSet(Barcodes(fn_out.reports[k].tape_list))
                       \subseteq SeqSet(fn_in[i].succeeded)
            /\ (fn_in[i].succeeded = <<>>) =>
                   QueriesOf(i) = {} /\ ReportsOf(i) = {}

\* a second batch that selected tapes was queried after a first one that
\* succeeded with another tape
C28_SecondBatchSeen ==
    /\ fn_pc = "ended"
    /\ Len(fn_in) = 2
    /\ fn_in[1].succeeded = <<"A55157LA">>
    /\ fn_in[2].succeeded = <<"A55200LA">>
    /\ QueriesOf(2) # {}
    /\ ReportsOf(2) # {}

\* a result query was issued for a batch that selected no tape, with the
\* barcodes of the batch before it
C28_StaleQuery ==
    \E k \in 1..Len(fn_out.queries) :
        /\ fn_out.queries[k].batch = 2
        /\ fn_in[2].selected = <<>>
        /\ fn_out.queries[k].barcodes = fn_in[1].succeeded

(***************************************************************************)
(* C29: pools are per instance                                             *)
(***************************************************************************)
\* the configured pool names found in a pool listing, none when the listing
\* failed or is empty
FoundIn(answer) ==
    IF ~Truthy(answer) THEN {}
    ELSE { p \in SeqSet(StripAll(Split(pools, ","))) :
               \E line \in SeqSet(Split(answer.out, "\n")) :
                   Split(line, "  ")[1] = p }

\* the pools processed on instance i
ProcessedOn(i) ==
    { fn_out.batches[k].pool :
          k \in { j \in 1..Len(fn_out.batches) : fn_out.batches[j].instance = i } }

\* instance i is done with
InstanceDone(i) == i < fn_out.instance \/ fn_pc = "ended"

\* C29: the pools processed on an instance are exactly the configured pool
\* names found in the pool listing of that instance; when the listing failed
\* or is empty, no pool is processed on it
C29_PoolsPerInstance ==
    \A i \in 1..Len(fn_in) :
        InstanceDone(i) => ProcessedOn(i) = FoundIn(fn_in[i])

\* the same for the instances whose listing came back, whatever the listings
\* of the instances before them
C29_OwnListingWhenAnswered ==
    \A i \in 1..Len(fn_in) :
        (InstanceDone(i) /\ (Truthy(fn_in[i]) \/ i = 1)) =>
            ProcessedOn(i) = FoundIn(fn_in[i])

\* the second instance lists one pool after the first listed two: only that
\* pool is processed on it
C29_OwnListingSeen ==
    /\ fn_pc = "ended"
    /\ Len(fn_in) = 2
    /\ Cardinality(ProcessedOn(1)) = 2
    /\ ProcessedOn(2) = {"FEB_3"}

\* pools are processed on an instance whose pool listing failed: those of
\* the instance before it
C29_PoolsOfEarlierInstance ==
    /\ fn_pc = "ended"
    /\ Len(fn_in) = 2
    /\ fn_in[2] = SshFalse
    /\ ProcessedOn(2) = ProcessedOn(1)
    /\ ProcessedOn(2) # {}

(***************************************************************************)
(* C30: health-check gating                                                *)
(***************************************************************************)
\* the mutating commands of the lock workflow: enable governance, set the
\* minimum or maximum period, set the lock of a tape
MutatingLockCommand(ev) ==
    /\ ev.kind = "ssh"
    /\ \/ StartsWith(ev.cmd, "mtree retention-lock enable")
       \/ StartsWith(ev.cmd, "mtree retention-lock set")
       \/ StartsWith(ev.cmd, "vtl tape modify")

\* the answer to 'vtl status' reports enabled, running and licensed
ReportsHealthy(answer) ==
    /\ Truthy(answer)
    /\ StrContains(answer.out, "enabled")
    /\ StrContains(answer.out, "running")
    /\ StrContains(answer.out, "licensed")

\* the 'vtl status' of the run reported enabled, running and licensed
\* before entry i of the history
HealthyBefore(i) ==
    \E j \in 1..(i - 1) :
        /\ lock_log[j].kind = "ssh"
        /\ lock_log[j].cmd = "vtl status"
        /\ ReportsHealthy(lock_log[j].res)

\* C30: no mutating command is issued to an appliance whose 'vtl status'
\* check did not report enabled, running and licensed in the same run (the
\* lock workflow)
C30_HealthCheckGating ==
    \A i \in 1..Len(lock_log) :
        MutatingLockCommand(lock_log[i]) => HealthyBefore(i)

\* the one step the flag does gate: the governance query
C30_QueryGated ==
    \A i \in 1..Len(lock_log) :
        (lock_log[i].kind = "ssh"
            /\ StartsWith(lock_log[i].cmd, "mtree retention-lock status"))
            => HealthyBefore(i) /\ VTL_STATUS = TRUE

\* the governance query was made in a run whose appliance is healthy
C30_QuerySeen ==
    \E i \in 1..Len(lock_log) :
        /\ lock_log[i].kind = "ssh"
        /\ StartsWith(lock_log[i].cmd, "mtree retention-lock status")
        /\ HealthyBefore(i)

\* the lock of a tape was set in a run whose 'vtl status' failed
C30_LockSetUnchecked ==
    /\ VTL_STATUS = FALSE
    /\ \E i \in 1..Len(lock_log) :
           /\ lock_log[i].kind = "ssh"
           /\ StartsWith(lock_log[i].cmd, "vtl tape modify")
           /\ ~HealthyBefore(i)

\* the same for the reset workflow: a catalog delete, export, tape del, tape
\* add or import is under way only on an instance whose 'vtl status'
\* reported enabled, running and licensed
C30_ResetGating ==
    (fn_pc = "wait"
        /\ fn_out.at.step \in GatingSteps \cup {"communicate"})
        => fn_out.vtl_status

\* a tape is removed from a pool of an instance whose 'vtl status' failed
C30_ResetUnchecked ==
    /\ fn_pc = "wait"
    /\ fn_out.at.step = "vtl tape del"
    /\ ~fn_out.vtl_status

====
